---- MODULE Spec2Model ----
(***************************************************************************)
(* The playlist manager of src/main.py (EnhancedIPTVManager) and           *)
(* src/tui.py (TUI_IPTV_Manager): the URL history, the registry of loaded  *)
(* playlists with its current pointer, and the group selection loop of the *)
(* export flow.                                                            *)
(***************************************************************************)
EXTENDS Integers, Sequences, FiniteSets, TLC

VARIABLES
    url_history,   \* self.url_history: list of entries, most recent first
    now,           \* the wall clock read by time.time(), in whole seconds
    call,          \* the operation that ran last, with its arguments and what it saw
    last_rec,      \* history only: per location, the number of its latest record call
    nops,          \* number of operations run so far
    ui,            \* the front end: "rich" / "simple" (main.py with and without
                   \* RICH_AVAILABLE) or "tui" (tui.py)
    group_names,   \* the candidate labels the selection loop was called with
    selected_set,  \* selected_groups of _enhanced_group_selection (a set) and
                   \* self.state.selected_groups of the TUI (a set)
    selected_list, \* selected_groups of _simple_group_selection (a list)
    sel_pc,        \* where the selection loop stands: "idle", "loop", "done",
                   \* "export" or "cancelled"
    loaded_playlists, \* self.loaded_playlists: the dict name -> playlist, as the
                      \* sequence of its items in insertion order
    current_playlist, \* self.current_playlist: a playlist object or None
    heap,             \* the playlist objects alive, by identity
    groups,           \* the group index of the export session: the dict
                      \* label -> channel positions, as the sequence of its items
    exported,         \* how the last export session ended, and what it wrote
    history_file,     \* what self.history_file (url_history.json) holds on disk
    multi             \* where load_multiple_urls stands: its urls, the index of
                      \* the one it is at, its success_count

histVars == <<url_history, last_rec, history_file>>
selVars == <<ui, group_names, selected_set, selected_list, sel_pc>>
regVars == <<loaded_playlists, current_playlist, heap>>
expVars == <<groups, exported>>
vars == <<url_history, now, call, last_rec, nops, ui, group_names,
          selected_set, selected_list, sel_pc,
          loaded_playlists, current_playlist, heap, groups, exported,
          history_file, multi>>

----------------------------------------------------------------------------
(* Program constants and bounds *)

\* src/main.py:127  self.url_history = self.url_history[:50]
HistCap == 50

\* locations beyond HistCap, so that a new location exists when the history is full
ExtraUrls == 2
\* largest channel count passed to add_to_history
MaxCount == 1
\* record calls made on top of the loaded history
MaxRecords == 2
\* how far from either end of the history the recorded locations and the
\* loaded lengths reach
Few == 1

Min(a, b) == IF a < b THEN a ELSE b

----------------------------------------------------------------------------
(* Locations.  A location is modelled by the two parts the code reads:     *)
(* urlparse(url).netloc (host) and the rest (path).                        *)

Url(h, p) == [host |-> h, path |-> p]

\* urlparse(url).netloc
netloc(url) == url.host

HistUrls == {Url(h, 1) : h \in 1..(HistCap + ExtraUrls)}

\* the locations record is called with: the oldest ones, one from the middle,
\* the newest ones and the ones no loaded history holds
RecordUrls ==
    {u \in HistUrls : \/ u.host <= Few
                      \/ u.host = HistCap \div 2
                      \/ u.host >= HistCap - Few}

\* the lengths of the history a session starts from
StoredLengths == (0..Few) \cup ((HistCap - Few)..HistCap)

----------------------------------------------------------------------------
(* History store *)

\* the list add_to_history leaves in self.url_history
add_to_history_nocap(hist, url, success, channel_count, t) ==
    LET history_entry == [url |-> url, timestamp |-> t, success |-> success,
                          channel_count |-> channel_count, domain |-> netloc(url)]
        removed == SelectSeq(hist, LAMBDA entry : entry.url # url)
    IN  <<history_entry>> \o removed

add_to_history_keepold(hist, url, success, channel_count, t) ==
    LET history_entry == [url |-> url, timestamp |-> t, success |-> success,
                          channel_count |-> channel_count, domain |-> netloc(url)]
    IN  IF \E i \in 1..Len(hist) : hist[i].url = url
        THEN LET i == CHOOSE j \in 1..Len(hist) : hist[j].url = url
             IN  <<hist[i]>> \o SelectSeq(hist, LAMBDA entry : entry.url # url)
        ELSE SubSeq(<<history_entry>> \o hist, 1, Min(Len(hist) + 1, HistCap))

add_to_history_cutfront(hist, url, success, channel_count, t) ==
    LET history_entry == [url |-> url, timestamp |-> t, success |-> success,
                          channel_count |-> channel_count, domain |-> netloc(url)]
        removed == SelectSeq(hist, LAMBDA entry : entry.url # url)
        inserted == <<history_entry>> \o removed
    IN  IF Len(inserted) > HistCap
        THEN <<history_entry>> \o SubSeq(removed, 2, Len(removed))
        ELSE inserted

add_to_history_inplace(hist, url, success, channel_count, t) ==
    LET history_entry == [url |-> url, timestamp |-> t, success |-> success,
                          channel_count |-> channel_count, domain |-> netloc(url)]
    IN  IF \E i \in 1..Len(hist) : hist[i].url = url
        THEN [i \in 1..Len(hist) |->
                 IF hist[i].url = url THEN history_entry ELSE hist[i]]
        ELSE SubSeq(<<history_entry>> \o hist, 1, Min(Len(hist) + 1, HistCap))

\* an entry that leaves the count at its default
add_to_history_nocount(hist, url, success, channel_count, t) ==
    LET history_entry == [url |-> url, timestamp |-> t, success |-> success,
                          channel_count |-> 0, domain |-> netloc(url)]
        removed == SelectSeq(hist, LAMBDA entry : entry.url # url)
        inserted == <<history_entry>> \o removed
    IN  SubSeq(inserted, 1, Min(Len(inserted), HistCap))

add_to_history(hist, url, success, channel_count, t) ==
    LET history_entry == [url |-> url, timestamp |-> t, success |-> success,
                          channel_count |-> channel_count, domain |-> netloc(url)]
        \* Remove existing entry if present
        removed == SelectSeq(hist, LAMBDA entry : entry.url # url)
        \* Add new entry at beginning
        inserted == <<history_entry>> \o removed
        \* Keep only last 50 entries
    IN  SubSeq(inserted, 1, Min(Len(inserted), HistCap))

\* what the history file holds: nothing (there is no file), a JSON array, or
\* text that is no JSON array (an empty file, or the beginning of the text
\* json.dump was writing)
HistoryFile(kind, entries) == [kind |-> kind, entries |-> entries]
NoFile == HistoryFile("missing", <<>>)

\* the file _load_url_history has read hist from; without a file it returns []
FileOf(hist) == IF hist = <<>> THEN NoFile ELSE HistoryFile("array", hist)

\* how _save_url_history ends: the array is written; open() raises and the
\* file is not touched; open(..., 'w') has emptied the file and json.dump
\* raises before the text is complete
WriteOutcomes == {"written", "open_raised", "dump_raised"}

\* _save_url_history: what the file holds afterwards; the exception is caught
save_url_history(hist, file, outcome) ==
    IF outcome = "written" THEN HistoryFile("array", hist)
    ELSE IF outcome = "open_raised" THEN file
    ELSE HistoryFile("partial", <<>>)

\* what a record call notes about itself: its arguments and what it found
RecordCallNote(hist, url, success, channel_count, outcome) ==
    LET at == {i \in 1..Len(hist) : hist[i].url = url}
        pos == IF at = {} THEN 0 ELSE CHOOSE i \in at : \A j \in at : i <= j
    IN  [op |-> "record", url |-> url, success |-> success,
         channel_count |-> channel_count,
         pos_before |-> pos,
         prev_success |-> IF pos = 0 THEN success ELSE hist[pos].success,
         len_before |-> Len(hist),
         outcome |-> outcome]

\* no load_multiple_urls is running
NoMulti == [pc |-> "idle", urls |-> <<>>, i |-> 0, success_count |-> 0, results |-> <<>>]

NoCall == [op |-> "none"]

\* the history that n record calls, one per location Url(1,1) .. Url(n,1) in
\* that order, leave in the history file (read back by _load_url_history)
StoredHistory(n) ==
    [i \in 1..n |-> [url |-> Url(n - i + 1, 1), timestamp |-> 0,
                     success |-> ((n - i + 1) % 2 = 0),
                     channel_count |-> (IF (n - i + 1) % 2 = 0 THEN 1 ELSE 0),
                     domain |-> netloc(Url(n - i + 1, 1))]]

\* a record call that forgets the entry when the file cannot be written
RecordSave_rollback(url, success, channel_count, outcome) ==
    /\ nops < MaxRecords
    /\ url_history' = IF outcome = "written"
                      THEN add_to_history(url_history, url, success, channel_count, now)
                      ELSE url_history
    /\ history_file' = save_url_history(url_history', history_file, outcome)
    /\ call' = RecordCallNote(url_history, url, success, channel_count, outcome)
    /\ last_rec' = [last_rec EXCEPT ![url] = nops + HistCap + 1]
    /\ nops' = nops + 1
    /\ UNCHANGED <<now, multi, selVars, regVars, expVars>>

\* add_to_history(url, success, channel_count) called on the manager, the
\* write of _save_url_history ending with outcome
RecordSave(url, success, channel_count, outcome) ==
    /\ nops < MaxRecords
    /\ url_history' = add_to_history(url_history, url, success, channel_count, now)
    /\ history_file' = save_url_history(url_history', history_file, outcome)
    /\ call' = RecordCallNote(url_history, url, success, channel_count, outcome)
    /\ last_rec' = [last_rec EXCEPT ![url] = nops + HistCap + 1]
    /\ nops' = nops + 1
    /\ UNCHANGED <<now, multi, selVars, regVars, expVars>>

\* add_to_history when the file can be written
Record(url, success, channel_count) ==
    RecordSave(url, success, channel_count, "written")

\* src/main.py:62  self.current_playlist = None
None == 0

\* __init__: no playlist loaded, none current
RegEmpty ==
    /\ loaded_playlists = <<>>
    /\ current_playlist = None
    /\ heap = <<>>

\* no export has run
NoExport == [status |-> "none"]

\* no selection loop is running
SelIdle ==
    /\ group_names = <<>>
    /\ selected_set = {}
    /\ selected_list = <<>>
    /\ sel_pc = "idle"
    /\ groups = <<>>
    /\ exported = NoExport

InitHist ==
    /\ \E n \in StoredLengths :
          /\ url_history = StoredHistory(n)
          /\ last_rec = [u \in HistUrls |-> IF u.host <= n THEN u.host ELSE 0]
          /\ history_file = FileOf(StoredHistory(n))
    /\ multi = NoMulti
    /\ now = 0
    /\ call = NoCall
    /\ nops = 0
    /\ ui \in {"rich", "simple", "tui"}
    /\ SelIdle
    /\ RegEmpty

NextHist ==
    \E url \in RecordUrls, success \in BOOLEAN, channel_count \in 0..MaxCount :
        Record(url, success, channel_count)

SpecHist == InitHist /\ [][NextHist]_vars

----------------------------------------------------------------------------
(* Claims about the history store *)

Locations(hist) == {hist[i].url : i \in 1..Len(hist)}

Occurrences(hist, url) == {i \in 1..Len(hist) : hist[i].url = url}

\* hist without the entries of url
Others(hist, url) == SelectSeq(hist, LAMBDA entry : entry.url # url)

IsPrefix(s, t) == Len(s) <= Len(t) /\ s = SubSeq(t, 1, Len(s))

\* C2: after any sequence of record calls the history holds at most 50
\* entries and no two entries have the same location.
C2_CappedAndDeduplicated ==
    /\ Len(url_history) <= HistCap
    /\ \A i, j \in 1..Len(url_history) :
           i # j => url_history[i].url # url_history[j].url

\* a record call of a new location has run on a full history
C2_Witness ==
    /\ call.op = "record"
    /\ call.len_before = HistCap
    /\ call.pos_before = 0
    /\ Len(url_history) = HistCap

\* C3: after record(loc, s, n) the history holds exactly one entry for loc,
\* that entry is first, and it carries the outcome (s, n) of this call.
C3_OneEntryFirstLatestOutcome ==
    call.op = "record" =>
        /\ Len(url_history) >= 1
        /\ Cardinality(Occurrences(url_history, call.url)) = 1
        /\ url_history[1].url = call.url
        /\ url_history[1].success = call.success
        /\ url_history[1].channel_count = call.channel_count

\* the second of two record calls in a row has recorded a location that was
\* in the history, not first, with the other outcome
C3_Witness ==
    /\ call.op = "record"
    /\ nops = 2
    /\ call.pos_before > 1
    /\ call.prev_success # call.success
    /\ url_history[1].url = call.url

\* C4: a record call of a new location on a history of exactly 50 entries
\* leaves 50 entries: the new entry first, then the previous first 49 in
\* unchanged order; exactly the previously last entry is dropped.
C4_DropsExactlyOldestAtCap ==
    [][(/\ Len(url_history) = HistCap
        /\ nops' = nops + 1
        /\ call'.op = "record"
        /\ call'.pos_before = 0)
       => (/\ Len(url_history') = HistCap
           /\ url_history'[1].url = call'.url
           /\ url_history'[1].success = call'.success
           /\ url_history'[1].channel_count = call'.channel_count
           /\ SubSeq(url_history', 2, HistCap) = SubSeq(url_history, 1, HistCap - 1)
           /\ url_history[HistCap].url \notin Locations(url_history'))]_vars

C4_Witness ==
    /\ call.op = "record"
    /\ call.len_before = HistCap
    /\ call.pos_before = 0
    /\ nops = 2

\* C5: the history is ordered most-recent-first (the location recorded later
\* stands earlier), and a record call for one location leaves the relative
\* order of the entries of all other locations unchanged.
C5_MostRecentFirst ==
    /\ [](\A i, j \in 1..Len(url_history) :
             i < j => last_rec[url_history[i].url] > last_rec[url_history[j].url])
    /\ [][call'.op = "record" =>
             IsPrefix(Others(url_history', call'.url),
                      Others(url_history, call'.url))]_vars

\* a location from inside the history has been recorded again
C5_Witness ==
    /\ call.op = "record"
    /\ call.pos_before > 2
    /\ call.pos_before < call.len_before
    /\ Len(url_history) = call.len_before

----------------------------------------------------------------------------
(* Text.  A string is the sequence of its characters, so that strip, lower, *)
(* split and int are computed as Python computes them.                      *)

DigitChars == <<"0", "1", "2", "3", "4", "5", "6", "7", "8", "9">>
Digits == {DigitChars[i] : i \in 1..Len(DigitChars)}
DigitValue(c) == (CHOOSE i \in 1..Len(DigitChars) : DigitChars[i] = c) - 1

UpperChars == <<"A", "C", "D", "E", "L", "N", "O", "P", "X">>
LowerChars == <<"a", "c", "d", "e", "l", "n", "o", "p", "x">>

lower_asis(str) == str

\* str.lower, character by character
lower(str) ==
    [i \in 1..Len(str) |->
        IF \E k \in 1..Len(UpperChars) : UpperChars[k] = str[i]
        THEN LowerChars[CHOOSE k \in 1..Len(UpperChars) : UpperChars[k] = str[i]]
        ELSE str[i]]

\* str.strip: leading and trailing blanks removed
strip(str) ==
    LET inked == {i \in 1..Len(str) : str[i] # " "}
    IN  IF inked = {} THEN <<>>
        ELSE SubSeq(str, CHOOSE i \in inked : \A j \in inked : i <= j,
                         CHOOSE i \in inked : \A j \in inked : i >= j)

\* str.split(sep): the pieces between the separators, empty pieces kept
RECURSIVE split(_, _)
split(str, sep) ==
    LET at == {i \in 1..Len(str) : str[i] = sep}
    IN  IF at = {} THEN <<str>>
        ELSE LET i == CHOOSE k \in at : \A j \in at : k <= j
             IN  <<SubSeq(str, 1, i - 1)>> \o split(SubSeq(str, i + 1, Len(str)), sep)

\* the digits of an int() literal after its blanks and its sign
IntDigits(str) ==
    LET t == strip(str)
    IN  IF t # <<>> /\ t[1] \in {"+", "-"} THEN Tail(t) ELSE t

\* int(str) raises ValueError
IntRaises(str) ==
    \/ IntDigits(str) = <<>>
    \/ \E i \in 1..Len(IntDigits(str)) : IntDigits(str)[i] \notin Digits

RECURSIVE DecimalValue(_)
DecimalValue(ds) ==
    IF ds = <<>> THEN 0
    ELSE 10 * DecimalValue(SubSeq(ds, 1, Len(ds) - 1)) + DigitValue(ds[Len(ds)])

\* int(str) when it does not raise
IntValue(str) ==
    LET t == strip(str)
    IN  IF t[1] = "-" THEN 0 - DecimalValue(IntDigits(str))
        ELSE DecimalValue(IntDigits(str))

----------------------------------------------------------------------------
(* Group selection: the loop bodies of _enhanced_group_selection and        *)
(* _simple_group_selection (src/main.py) and of _export_tui (src/tui.py)    *)

Range(seq) == {seq[i] : i \in 1..Len(seq)}

ParsePart_clamped(raw, names) ==
    LET part == strip(raw)
        Clamp(k) == IF k < 0 THEN 0 ELSE IF k >= Len(names) THEN Len(names) - 1 ELSE k
    IN  IF \E i \in 1..Len(part) : part[i] = "-"
        THEN LET ends == split(part, "-")
             IN  IF Len(ends) # 2 \/ IntRaises(ends[1]) \/ IntRaises(ends[2])
                 THEN [raised |-> TRUE, labels |-> {}]
                 ELSE LET start_idx == IntValue(ends[1]) - 1
                          end_idx == IntValue(ends[2]) - 1
                      IN  [raised |-> FALSE,
                           labels |-> {names[Clamp(idx) + 1] :
                                       idx \in start_idx..end_idx}]
        ELSE IF IntRaises(part)
             THEN [raised |-> TRUE, labels |-> {}]
             ELSE LET idx == IntValue(part) - 1
                  IN  [raised |-> FALSE, labels |-> {names[Clamp(idx) + 1]}]

ParsePart_swapped(raw, names) ==
    LET part == strip(raw)
    IN  IF \E i \in 1..Len(part) : part[i] = "-"
        THEN LET ends == split(part, "-")
             IN  IF Len(ends) # 2 \/ IntRaises(ends[1]) \/ IntRaises(ends[2])
                 THEN [raised |-> TRUE, labels |-> {}]
                 ELSE LET lo == IntValue(ends[1])
                          hi == IntValue(ends[2])
                          start_idx == (IF lo < hi THEN lo ELSE hi) - 1
                          end_idx == (IF lo < hi THEN hi ELSE lo) - 1
                      IN  [raised |-> FALSE,
                           labels |-> {names[idx + 1] :
                                       idx \in {k \in start_idx..end_idx :
                                                0 <= k /\ k < Len(names)}}]
        ELSE IF IntRaises(part)
             THEN [raised |-> TRUE, labels |-> {}]
             ELSE LET idx == IntValue(part) - 1
                  IN  [raised |-> FALSE,
                       labels |-> IF 0 <= idx /\ idx < Len(names)
                                  THEN {names[idx + 1]} ELSE {}]

\* the labels one comma-separated part adds to new_selections, or ValueError
ParsePart(raw, names) ==
    LET part == strip(raw)
    IN  IF \E i \in 1..Len(part) : part[i] = "-"
        THEN LET ends == split(part, "-")
             IN  \* start, end = part.split('-'); int(start.strip()); int(end.strip())
                 IF Len(ends) # 2 \/ IntRaises(ends[1]) \/ IntRaises(ends[2])
                 THEN [raised |-> TRUE, labels |-> {}]
                 ELSE LET start_idx == IntValue(ends[1]) - 1
                          end_idx == IntValue(ends[2]) - 1
                      IN  [raised |-> FALSE,
                           labels |-> {names[idx + 1] :
                                       idx \in {k \in start_idx..end_idx :
                                                0 <= k /\ k < Len(names)}}]
        ELSE IF IntRaises(part)
             THEN [raised |-> TRUE, labels |-> {}]
             ELSE LET idx == IntValue(part) - 1
                  IN  [raised |-> FALSE,
                       labels |-> IF 0 <= idx /\ idx < Len(names)
                                  THEN {names[idx + 1]} ELSE {}]

RECURSIVE ParseParts_partial(_, _, _, _)
ParseParts_partial(parts, k, names, new_selections) ==
    IF k > Len(parts) THEN [raised |-> FALSE, new_selections |-> new_selections]
    ELSE LET got == ParsePart(parts[k], names)
         IN  IF got.raised
             THEN [raised |-> FALSE, new_selections |-> new_selections]
             ELSE ParseParts_partial(parts, k + 1, names, new_selections \cup got.labels)

RECURSIVE ParseParts_cancel(_, _, _, _)
ParseParts_cancel(parts, k, names, new_selections) ==
    IF k > Len(parts) THEN [raised |-> FALSE, new_selections |-> new_selections]
    ELSE LET got == ParsePart(parts[k], names)
         IN  IF got.raised
             THEN [raised |-> TRUE, new_selections |-> new_selections]
             ELSE ParseParts_cancel(parts, k + 1, names,
                                    (new_selections \ got.labels)
                                    \cup (got.labels \ new_selections))

\* the for loop over choice.split(','): new_selections so far, until a part raises
RECURSIVE ParseParts(_, _, _, _)
ParseParts(parts, k, names, new_selections) ==
    IF k > Len(parts) THEN [raised |-> FALSE, new_selections |-> new_selections]
    ELSE LET got == ParsePart(parts[k], names)
         IN  IF got.raised
             THEN [raised |-> TRUE, new_selections |-> new_selections]
             ELSE ParseParts(parts, k + 1, names, new_selections \cup got.labels)

ParseChoice(choice, names) == ParseParts(split(choice, ","), 1, names, {})

\* the toggle loop on the set of _enhanced_group_selection
ToggleSet_addonly(selected, new_selections) == selected \cup new_selections

ToggleSet_replace(selected, new_selections) == new_selections

ToggleSet(selected, new_selections) ==
    (selected \ new_selections) \cup (new_selections \ selected)

Perms(S) ==
    {f \in [1..Cardinality(S) -> S] : \A i, j \in 1..Cardinality(S) : i # j => f[i] # f[j]}

\* the toggle loop on the list of _simple_group_selection: the labels are
\* visited in the iteration order of the set new_selections, which the
\* language does not fix
ToggleList_appendonly(selected, new_selections) ==
    {selected \o fresh : fresh \in Perms(new_selections \ Range(selected))}

ToggleList(selected, new_selections) ==
    {SelectSeq(selected, LAMBDA g : g \notin new_selections) \o fresh :
        fresh \in Perms(new_selections \ Range(selected))}

KwDone == <<"d", "o", "n", "e">>
KwAll == <<"a", "l", "l">>
KwNone == <<"n", "o", "n", "e">>

\* the labels selected right now, whichever front end holds them
Selection == IF ui = "simple" THEN Range(selected_list) ELSE selected_set

\* twice holds the Selection from before the turn before this one when that
\* turn read the same line
SelectNote(typed, choice, raised) ==
    [op |-> "select", typed |-> typed, choice |-> choice, raised |-> raised,
     before |-> Selection, before_list |-> selected_list,
     twice |-> IF call.op = "select" /\ call.typed = typed
               THEN <<call.before>> ELSE <<>>]

----------------------------------------------------------------------------
(* The lines typed at the selection prompt *)

\* the ways to leave the loop, and the empty line
TypedLeave ==
    {<<"d", "o", "n", "e">>,
     <<"D", "O", "N", "E">>,
     <<" ", "D", "o", "n", "e", " ">>,
     <<>>}

\* the keywords, in several letter cases
TypedKeywords ==
    {<<"a", "l", "l">>,
     <<"A", "L", "L">>,
     <<"A", "l", "l">>,
     <<" ", "a", "L", "l">>,
     <<"n", "o", "n", "e">>,
     <<"N", "O", "N", "E">>,
     <<"n", "O", "n", "E">>}

\* indices and ranges inside 1..n
TypedInRange ==
    {<<"1">>,
     <<"2">>,
     <<"3">>,
     <<"1", ",", "3">>,
     <<"1", ",", "2">>,
     <<"1", "-", "3">>,
     <<"1", "-", "2">>,
     <<"2", "-", "3">>,
     <<" ", "1", " ", ",", " ", "3", " ">>,
     <<"1", " ", "-", " ", "2">>,
     <<"+", "2">>}

\* the same index more than once
TypedRepeated ==
    {<<"3", ",", "3">>,
     <<"1", ",", "1">>,
     <<"2", ",", "1", "-", "3">>,
     <<"1", "-", "2", ",", "2", "-", "3">>,
     <<"1", ",", "1", ",", "1">>}

\* indices outside 1..n
TypedOutOfRange ==
    {<<"0">>,
     <<"4">>,
     <<"1", "2">>,
     <<"0", "-", "2">>,
     <<"2", "-", "9">>,
     <<"0", ",", "2">>,
     <<"4", ",", "1">>,
     <<"0", "-", "0">>}

\* ranges that run backwards
TypedBackwards ==
    {<<"3", "-", "1">>,
     <<"2", "-", "1", ",", "3">>}

\* malformed parts
TypedMalformed ==
    {<<"x">>,
     <<"1", ",", "x">>,
     <<"1", ",">>,
     <<",", "1">>,
     <<"1", ",", ",", "3">>,
     <<"1", "-">>,
     <<"-", "2">>,
     <<"1", "-", "x">>,
     <<"x", "-", "2">>,
     <<"1", "-", "2", "-", "3">>,
     <<"2", ",", "1", "-">>,
     <<"1", "-", "-", "2">>,
     <<"a", "l">>,
     <<"1", " ", "2">>,
     <<"-">>,
     <<"3", ",", "-", "1">>,
     <<"1", ".", "5">>}

TypedExprs ==
    TypedLeave \cup TypedKeywords \cup TypedInRange \cup TypedRepeated
    \cup TypedOutOfRange \cup TypedBackwards \cup TypedMalformed

Labels == {"News", "Sports", "Music"}

\* the candidate lists the loops are called with: non-empty, without repeats
CandidateLists ==
    UNION {{f \in [1..n -> Labels] : \A i, j \in 1..n : i # j => f[i] # f[j]} :
           n \in 1..Cardinality(Labels)}

\* tui.py:479  current_page = 0 (it moves only with more than items_per_page groups)
current_page == 0
\* tui.py:480  items_per_page = 20
items_per_page == 20

\* str(i) for the small numbers the TUI offers as choices
Str(i) == IF i < 10 THEN <<DigitChars[i + 1]>>
          ELSE <<DigitChars[(i \div 10) + 1], DigitChars[(i % 10) + 1]>>

\* the choices of the TUI prompt: the numbers on the page and the letters
TuiChoices(names) ==
    LET start_idx == current_page * items_per_page
        end_idx == Min(start_idx + items_per_page, Len(names))
    IN  {Str(i + 1) : i \in start_idx..(end_idx - 1)}
        \cup {<<"a">>, <<"n">>, <<"p">>, <<"d">>, <<"e">>, <<"c">>}

\* .strip().lower() of every line, worked out once
Lowered == [typed \in TypedExprs \cup {KwDone} |-> lower(strip(typed))]

\* what the prompt hands to the loop: Prompt.ask(default="done") in the rich
\* loop, input() in the simple one; then .strip().lower()
Choice(typed) ==
    Lowered[IF ui = "rich" /\ typed = <<>> THEN KwDone ELSE typed]

\* what the loops can read from the prompt
Choices == {Lowered[typed] : typed \in DOMAIN Lowered}

\* ParseChoice for every choice and candidate list, worked out once
ParseTable ==
    [names \in CandidateLists |->
        [choice \in Choices |-> ParseChoice(choice, names)]]

----------------------------------------------------------------------------
(* The selection loops as actions *)

\* entry of the selection that leaves the labels of the session before in place
StartSelection_keep(names) ==
    /\ sel_pc # "loop"
    /\ group_names' = names
    /\ UNCHANGED <<selected_set, selected_list>>
    /\ sel_pc' = "loop"
    /\ call' = [op |-> "start", before |-> Selection, ended |-> sel_pc]

\* entry of the selection: selected_groups = set() / [] / .clear()
StartSelection(names) ==
    /\ sel_pc # "loop"
    /\ group_names' = names
    /\ selected_set' = {}
    /\ selected_list' = <<>>
    /\ sel_pc' = "loop"
    /\ call' = [op |-> "start", before |-> Selection, ended |-> sel_pc]

\* one turn of the while loop of _enhanced_group_selection
EnhancedStep(typed) ==
    LET choice == Choice(typed)
        parsed == ParseTable[group_names][choice]
    IN  /\ ui = "rich"
        /\ sel_pc = "loop"
        /\ IF choice = KwDone
           THEN /\ sel_pc' = "done"
                /\ UNCHANGED selected_set
                /\ call' = SelectNote(typed, choice, FALSE)
           ELSE IF choice = KwAll
           THEN /\ selected_set' = Range(group_names)
                /\ UNCHANGED sel_pc
                /\ call' = SelectNote(typed, choice, FALSE)
           ELSE IF choice = KwNone
           THEN /\ selected_set' = {}
                /\ UNCHANGED sel_pc
                /\ call' = SelectNote(typed, choice, FALSE)
           ELSE IF parsed.raised
           THEN \* except ValueError: the error is printed, the loop goes on
                /\ UNCHANGED <<selected_set, sel_pc>>
                /\ call' = SelectNote(typed, choice, TRUE)
           ELSE /\ selected_set' = ToggleSet(selected_set, parsed.new_selections)
                /\ UNCHANGED sel_pc
                /\ call' = SelectNote(typed, choice, FALSE)
        /\ UNCHANGED <<ui, group_names, selected_list>>

\* one turn of the while loop of _simple_group_selection
SimpleStep(typed) ==
    LET choice == Choice(typed)
        parsed == ParseTable[group_names][choice]
    IN  /\ ui = "simple"
        /\ sel_pc = "loop"
        /\ IF choice = KwDone
           THEN /\ sel_pc' = "done"
                /\ UNCHANGED selected_list
                /\ call' = SelectNote(typed, choice, FALSE)
           ELSE IF choice = KwAll
           THEN /\ selected_list' = group_names
                /\ UNCHANGED sel_pc
                /\ call' = SelectNote(typed, choice, FALSE)
           ELSE IF choice = KwNone
           THEN /\ selected_list' = <<>>
                /\ UNCHANGED sel_pc
                /\ call' = SelectNote(typed, choice, FALSE)
           ELSE IF parsed.raised
           THEN /\ UNCHANGED <<selected_list, sel_pc>>
                /\ call' = SelectNote(typed, choice, TRUE)
           ELSE /\ selected_list' \in ToggleList(selected_list, parsed.new_selections)
                /\ UNCHANGED sel_pc
                /\ call' = SelectNote(typed, choice, FALSE)
        /\ UNCHANGED <<ui, group_names, selected_set>>

\* one turn of the while loop of _export_tui; the prompt accepts only its choices
TuiCommand(typed) ==
    LET command == lower(IF typed = <<>> THEN <<"c">> ELSE typed)
        start_idx == current_page * items_per_page
        end_idx == Min(start_idx + items_per_page, Len(group_names))
        isdigit == command # <<>> /\ \A i \in 1..Len(command) : command[i] \in Digits
    IN  /\ ui = "tui"
        /\ sel_pc = "loop"
        /\ typed = <<>> \/ typed \in TuiChoices(group_names)
        /\ call' = SelectNote(typed, command, FALSE)
        /\ IF isdigit
           THEN LET idx == IntValue(command) - 1
                IN  /\ selected_set' =
                          IF start_idx <= idx /\ idx < end_idx
                          THEN ToggleSet(selected_set, {group_names[idx + 1]})
                          ELSE selected_set
                    /\ UNCHANGED sel_pc
           ELSE IF command = <<"a">>
           THEN selected_set' = selected_set \cup Range(group_names) /\ UNCHANGED sel_pc
           ELSE IF command = <<"n">>
           THEN selected_set' = {} /\ UNCHANGED sel_pc
           ELSE IF command = <<"e">>
           THEN sel_pc' = "export" /\ UNCHANGED selected_set
           ELSE IF command = <<"c">>
           THEN sel_pc' = "cancelled" /\ UNCHANGED selected_set
           ELSE \* 'p' with current_page = 0, 'd' with every group on the page
                UNCHANGED <<selected_set, sel_pc>>
        /\ UNCHANGED <<ui, group_names, selected_list>>

InitSel ==
    /\ url_history = <<>>
    /\ last_rec = <<>>
    /\ history_file = FileOf(url_history)
    /\ multi = NoMulti
    /\ now = 0
    /\ call = NoCall
    /\ nops = 0
    /\ ui \in {"rich", "simple", "tui"}
    /\ SelIdle
    /\ RegEmpty

NextSel ==
    \/ \E names \in CandidateLists :
          StartSelection(names) /\ UNCHANGED <<histVars, regVars, expVars, now, multi, nops, ui>>
    \/ \E typed \in TypedExprs :
          EnhancedStep(typed) /\ UNCHANGED <<histVars, regVars, expVars, now, multi, nops>>
    \/ \E typed \in TypedExprs :
          SimpleStep(typed) /\ UNCHANGED <<histVars, regVars, expVars, now, multi, nops>>
    \/ \E typed \in TypedExprs \cup {<<"a">>, <<"n">>, <<"p">>, <<"d">>, <<"e">>, <<"c">>} :
          TuiCommand(typed) /\ UNCHANGED <<histVars, regVars, expVars, now, multi, nops>>

SpecSel == InitSel /\ [][NextSel]_vars

----------------------------------------------------------------------------
(* Claims about the selection loops *)

\* how the selection language reads each well-formed numeric line: its
\* tokens as pairs <<first, last>> of 1-based indices (a single index i is
\* <<i, i>>), written down from the grammar, not computed by the parser
ReadingPairs ==
    {<<<<"1">>, {<<1, 1>>}>>,
     <<<<"2">>, {<<2, 2>>}>>,
     <<<<"3">>, {<<3, 3>>}>>,
     <<<<"1", ",", "3">>, {<<1, 1>>, <<3, 3>>}>>,
     <<<<"1", ",", "2">>, {<<1, 1>>, <<2, 2>>}>>,
     <<<<"1", "-", "3">>, {<<1, 3>>}>>,
     <<<<"1", "-", "2">>, {<<1, 2>>}>>,
     <<<<"2", "-", "3">>, {<<2, 3>>}>>,
     <<<<" ", "1", " ", ",", " ", "3", " ">>, {<<1, 1>>, <<3, 3>>}>>,
     <<<<"1", " ", "-", " ", "2">>, {<<1, 2>>}>>,
     <<<<"+", "2">>, {<<2, 2>>}>>,
     <<<<"3", ",", "3">>, {<<3, 3>>}>>,
     <<<<"1", ",", "1">>, {<<1, 1>>}>>,
     <<<<"2", ",", "1", "-", "3">>, {<<2, 2>>, <<1, 3>>}>>,
     <<<<"1", "-", "2", ",", "2", "-", "3">>, {<<1, 2>>, <<2, 3>>}>>,
     <<<<"1", ",", "1", ",", "1">>, {<<1, 1>>}>>,
     <<<<"0">>, {<<0, 0>>}>>,
     <<<<"4">>, {<<4, 4>>}>>,
     <<<<"1", "2">>, {<<12, 12>>}>>,
     <<<<"0", "-", "2">>, {<<0, 2>>}>>,
     <<<<"2", "-", "9">>, {<<2, 9>>}>>,
     <<<<"0", ",", "2">>, {<<0, 0>>, <<2, 2>>}>>,
     <<<<"4", ",", "1">>, {<<4, 4>>, <<1, 1>>}>>,
     <<<<"0", "-", "0">>, {<<0, 0>>}>>,
     <<<<"3", "-", "1">>, {<<3, 1>>}>>,
     <<<<"2", "-", "1", ",", "3">>, {<<2, 1>>, <<3, 3>>}>>}

Reading(typed) == (CHOOSE pair \in ReadingPairs : pair[1] = typed)[2]

NumericLines == {pair[1] : pair \in ReadingPairs}

\* index k of the candidate list is named by some token
Mentioned(tokens, k) == \E tok \in tokens : tok[1] <= k /\ k <= tok[2]

\* the labels the tokens resolve to in the candidate list
Resolved(tokens, names) ==
    {names[k] : k \in {i \in 1..Len(names) : Mentioned(tokens, i)}}

SymDiff(A, B) == (A \ B) \cup (B \ A)

\* a numeric line has just been read by one of the loops
ReadNumeric == call.op = "select" /\ call.typed \in NumericLines

\* C6: a numeric selection expression toggles every resolved label (those in
\* the Selection leave it, those outside join it) and leaves every other
\* label as it was; on [News, Sports, Music] from {} "1,3" gives
\* {News, Music}, and "1" after that gives {Music}.
C6_NumericExpressionToggles ==
    /\ ReadNumeric =>
          /\ ~call.raised
          /\ Selection = SymDiff(call.before,
                                 Resolved(Reading(call.typed), group_names))
    /\ (/\ call.op = "select"
        /\ ui \in {"rich", "simple"}
        /\ group_names = <<"News", "Sports", "Music">>
        /\ call.typed = <<"1", ",", "3">>
        /\ call.before = {}) => Selection = {"News", "Music"}
    /\ (/\ call.op = "select"
        /\ ui \in {"rich", "simple"}
        /\ group_names = <<"News", "Sports", "Music">>
        /\ call.typed = <<"1">>
        /\ call.before = {"News", "Music"}) => Selection = {"Music"}

\* the second step of the scenario has run
C6_Witness ==
    /\ call.op = "select"
    /\ ui = "simple"
    /\ group_names = <<"News", "Sports", "Music">>
    /\ call.typed = <<"1">>
    /\ call.before_list = <<"News", "Music">>
    /\ selected_list = <<"Music">>

\* lines that name an in-range index twice and nothing else
TwiceLines == {<<"3", ",", "3">>, <<"1", ",", "1">>}

\* C7 as claimed: a line with the same in-range index twice leaves the
\* Selection as it was before the line.
C7_Claimed_RepeatsCancel ==
    (call.op = "select" /\ call.typed \in TwiceLines) => Selection = call.before

\* each line with a repeated index, and the same line with every index once
OncePairs ==
    {<<<<"3", ",", "3">>, <<"3">>>>,
     <<<<"1", ",", "1">>, <<"1">>>>,
     <<<<"1", ",", "1", ",", "1">>, <<"1">>>>,
     <<<<"2", ",", "1", "-", "3">>, <<"1", "-", "3">>>>,
     <<<<"1", "-", "2", ",", "2", "-", "3">>, <<"1", "-", "3">>>>}

Once(typed) == (CHOOSE pair \in OncePairs : pair[1] = typed)[2]

\* C7 as amended: a line that names the same in-range index more than once
\* acts as the line that names it once: the label of that index is toggled
\* exactly once (its membership changes), so repeats do not cancel out.
C7_RepeatsToggleOnce ==
    (call.op = "select" /\ call.typed \in {pair[1] : pair \in OncePairs}) =>
        /\ ~call.raised
        /\ Selection = SymDiff(call.before,
                               ParseChoice(Lowered[Once(call.typed)],
                                           group_names).new_selections)
        /\ \A k \in 1..Len(group_names) :
              Mentioned(Reading(call.typed), k) =>
                  ((group_names[k] \in Selection) # (group_names[k] \in call.before))

\* "3,3" has been read with three candidates: the third label has joined
C7_Witness ==
    /\ call.op = "select"
    /\ call.typed = <<"3", ",", "3">>
    /\ Len(group_names) = 3
    /\ group_names[3] \notin call.before
    /\ group_names[3] \in Selection

\* C8: a line with a malformed token (non-numeric, empty, a range with a
\* missing, non-numeric or extra endpoint) is rejected as a whole: the error
\* is reported and the Selection is as before the line, also when valid
\* tokens precede the malformed one.
C8_MalformedRejectedWhole ==
    (/\ call.op = "select"
     /\ \/ call.typed \in TypedMalformed
        \/ ui = "simple" /\ call.typed = <<>>) =>
        /\ call.raised
        /\ Selection = call.before
        /\ selected_list = call.before_list
        /\ sel_pc = "loop"

\* "1,x" has been read while the first label was not selected
C8_Witness ==
    /\ call.op = "select"
    /\ call.typed = <<"1", ",", "x">>
    /\ call.raised
    /\ call.before # {}
    /\ group_names[1] \notin call.before

\* a numeric line with some index outside 1..n has just been read
ReadOutOfRange ==
    /\ ReadNumeric
    /\ \E tok \in Reading(call.typed) :
          \E k \in tok[1]..tok[2] : k < 1 \/ k > Len(group_names)

\* C9: indices outside 1..n, 0 and the out-of-range part of a range
\* included, are ignored without an error, and the in-range indices of the
\* same line are still toggled.
C9_OutOfRangeIgnored ==
    ReadOutOfRange =>
        /\ ~call.raised
        /\ Selection \subseteq Range(group_names)
        /\ \A k \in 1..Len(group_names) :
              ((group_names[k] \in Selection) # (group_names[k] \in call.before))
                  <=> Mentioned(Reading(call.typed), k)

\* "0-2" has been read with three candidates: the first two are toggled
C9_Witness ==
    /\ ReadOutOfRange
    /\ call.typed = <<"0", "-", "2">>
    /\ Len(group_names) = 3
    /\ call.before = {group_names[2]}
    /\ Selection = {group_names[1]}

AllSpellings == {<<"a", "l", "l">>, <<"A", "L", "L">>, <<"A", "l", "l">>,
                 <<" ", "a", "L", "l">>}
NoneSpellings == {<<"n", "o", "n", "e">>, <<"N", "O", "N", "E">>,
                  <<"n", "O", "n", "E">>}

\* C10: whatever the Selection, 'all' in any letter case makes it the full
\* candidate set and 'none' in any letter case makes it empty (in the TUI
\* the commands are 'a' and 'n').
C10_AllAndNone ==
    call.op = "select" =>
        /\ (ui # "tui" /\ call.typed \in AllSpellings) =>
              (Selection = Range(group_names) /\ ~call.raised)
        /\ (ui # "tui" /\ call.typed \in NoneSpellings) =>
              (Selection = {} /\ ~call.raised)
        /\ (ui = "simple" /\ call.typed \in AllSpellings) =>
              selected_list = group_names
        /\ (ui = "tui" /\ call.typed = <<"a">>) => Selection = Range(group_names)
        /\ (ui = "tui" /\ call.typed = <<"n">>) => Selection = {}

\* 'ALL' has been read while some but not all labels were selected
C10_Witness ==
    /\ call.op = "select"
    /\ ui = "rich"
    /\ call.typed = <<"A", "L", "L">>
    /\ call.before # {}
    /\ call.before # Range(group_names)
    /\ Selection = Range(group_names)

\* the line of the turn before has just been read once more
ReadAgain == call.op = "select" /\ call.twice # <<>>

\* the keywords of the loops and the commands of the TUI that stand for them
KeywordLines == AllSpellings \cup NoneSpellings \cup {<<"a">>, <<"n">>}

\* C30: a well-formed numeric line read twice in succession leaves the
\* Selection as it was before the first reading (the toggle of one line is
\* an involution); 'all' or 'none' read twice leaves what one reading left.
C30_TwiceNumericRestoresKeywordsRepeat ==
    ReadAgain =>
        /\ call.typed \in NumericLines =>
              (Selection = call.twice[1] /\ ~call.raised)
        /\ call.typed \in KeywordLines =>
              (/\ Selection = call.before
               /\ selected_list = call.before_list
               /\ ~call.raised)

\* "1-2" has been read twice from a Selection with one of the two labels:
\* the first reading swapped them, the second swapped them back
C30_Witness ==
    /\ ReadAgain
    /\ ui = "rich"
    /\ call.typed = <<"1", "-", "2">>
    /\ Len(group_names) = 3
    /\ call.twice[1] = {group_names[1], group_names[3]}
    /\ call.before = {group_names[2], group_names[3]}
    /\ Selection = {group_names[1], group_names[3]}

\* the numeric lines with a range whose first endpoint is above its second
BackwardLines ==
    {typed \in NumericLines : \E tok \in Reading(typed) : tok[1] > tok[2]}

\* the tokens that are single indices or ranges running forwards
Forward(tokens) == {tok \in tokens : tok[1] <= tok[2]}

\* C32: a range i-j with integer endpoints and i > j names no label and
\* raises no error: the line toggles what its other tokens name, and a line
\* that is only such a range leaves the Selection as it was.
C32_BackwardRangeNamesNothing ==
    (call.op = "select" /\ call.typed \in BackwardLines) =>
        /\ ~call.raised
        /\ sel_pc = "loop"
        /\ Selection = SymDiff(call.before,
                               Resolved(Forward(Reading(call.typed)), group_names))
        /\ Forward(Reading(call.typed)) = {} =>
              (Selection = call.before /\ selected_list = call.before_list)

\* "2-1,3" has been read with three candidates while the second was
\* selected: the third has joined, the first two are as before
C32_Witness ==
    /\ call.op = "select"
    /\ call.typed = <<"2", "-", "1", ",", "3">>
    /\ ~call.raised
    /\ Len(group_names) = 3
    /\ call.before = {group_names[2]}
    /\ Selection = {group_names[2], group_names[3]}

----------------------------------------------------------------------------
(* The two selection loops of src/main.py fed the same lines: each line is   *)
(* read by the prompt of the front end ui, and the choice is handed to the   *)
(* loop body of _enhanced_group_selection (on selected_set) and to the loop  *)
(* body of _simple_group_selection (on selected_list)                        *)

\* both functions are entered with the same candidate list
LockStart(names) ==
    /\ sel_pc # "loop"
    /\ group_names' = names
    /\ selected_set' = {}
    /\ selected_list' = <<>>
    /\ sel_pc' = "loop"
    /\ call' = [op |-> "lockstart"]
    /\ UNCHANGED ui

\* one turn of both while loops on the same choice
LockStep(typed) ==
    LET choice == Choice(typed)
        parsed == ParseTable[group_names][choice]
        keyword == choice \in {KwDone, KwAll, KwNone}
    IN  /\ ui \in {"rich", "simple"}
        /\ sel_pc = "loop"
        /\ selected_set' =
              IF choice = KwDone THEN selected_set
              ELSE IF choice = KwAll THEN Range(group_names)
              ELSE IF choice = KwNone THEN {}
              ELSE IF parsed.raised THEN selected_set
              ELSE ToggleSet(selected_set, parsed.new_selections)
        /\ selected_list' \in
              IF choice = KwDone THEN {selected_list}
              ELSE IF choice = KwAll THEN {group_names}
              ELSE IF choice = KwNone THEN {<<>>}
              ELSE IF parsed.raised THEN {selected_list}
              ELSE ToggleList(selected_list, parsed.new_selections)
        /\ sel_pc' = IF choice = KwDone THEN "done" ELSE "loop"
        /\ call' = [op |-> "lockstep", toggled |-> ~keyword /\ ~parsed.raised]
        /\ UNCHANGED <<ui, group_names>>

InitLock ==
    /\ url_history = <<>>
    /\ last_rec = <<>>
    /\ history_file = FileOf(url_history)
    /\ multi = NoMulti
    /\ now = 0
    /\ call = NoCall
    /\ nops = 0
    /\ ui \in {"rich", "simple"}
    /\ SelIdle
    /\ RegEmpty

NextLock ==
    \/ \E names \in CandidateLists :
          LockStart(names) /\ UNCHANGED <<histVars, regVars, expVars, now, multi, nops>>
    \/ \E typed \in TypedExprs :
          LockStep(typed) /\ UNCHANGED <<histVars, regVars, expVars, now, multi, nops>>

SpecLock == InitLock /\ [][NextLock]_vars

\* no label is held twice
NoRepeats(seq) == \A i, j \in 1..Len(seq) : i # j => seq[i] # seq[j]

----------------------------------------------------------------------------
(* Playlist registry: self.loaded_playlists and self.current_playlist of    *)
(* EnhancedIPTVManager (src/main.py) and TUI_IPTV_Manager (src/tui.py)      *)

\* operations on the registry run in one session
MaxOps == 2
\* playlists the registry holds at most
MaxLoaded == 3
\* the clock runs from 0 to MaxTime
MaxTime == 1

\* a channel, as far as the manager reads it: its name and its group-title
\* attribute ("" when the attribute is missing)
Channel(n, g) == [name |-> n, group |-> g]

\* a playlist object: its channels in order and its playlist-level
\* attributes, a dict kept as the set of its (key, value) items
Playlist(chs, attrs) == [channels |-> chs, attributes |-> attrs]

\* M3UPlaylist(): no channels, no attributes
M3UPlaylist == Playlist(<<>>, {})

\* pl.get_channels(), pl.get_attributes()
get_channels(pl) == pl.channels
get_attributes(pl) == pl.attributes

\* pl.append_channel(channel), pl.append_channels(new_channels)
append_channel(pl, channel) == [pl EXCEPT !.channels = Append(@, channel)]
append_channels(pl, new_channels) == [pl EXCEPT !.channels = @ \o new_channels]

\* pl.add_attributes(attrs): the items of attrs are put into pl's own dict
add_attributes(pl, attrs) ==
    [pl EXCEPT !.attributes =
        {item \in @ : \A other \in attrs : other[1] # item[1]} \cup attrs]

\* what playlist.loadu (and the sanitizer after it) can hand back
FetchResults ==
    {Playlist(<<Channel("c1", "News")>>, {}),
     Playlist(<<Channel("c2", "Sports"), Channel("c3", "")>>,
              {<<"x-tvg-url", "guide">>})}

\* how a load attempt ends: with a playlist, or with one of the exceptions
\* load_playlist_from_url catches
FetchOutcomes ==
    {[kind |-> "ok", pl |-> fetched_pl] : fetched_pl \in FetchResults}
    \cup {[kind |-> k, pl |-> M3UPlaylist] :
            k \in {"URLException", "MalformedPlaylistException", "Exception"}}

\* two locations on one host
LoadUrls == {Url(1, 1), Url(1, 2)}

\* playlist names: no name given, f"{domain}_{timestamp}", f"merged_{int(time.time())}"
\* and names the caller passes in
NoName == <<>>
GeneratedName(domain, t) == <<"host", domain, t>>
MergedName(t) == <<"merged", t>>
GivenNames == {<<"given", 1>>}

\* the dict operations on the sequence of (name, playlist) items
DictHas(d, name) == \E i \in 1..Len(d) : d[i].name = name
DictGet(d, name) == d[CHOOSE i \in 1..Len(d) : d[i].name = name].pl
DictPut(d, name, pl) ==
    IF DictHas(d, name)
    THEN [i \in 1..Len(d) |-> IF d[i].name = name THEN [name |-> name, pl |-> pl] ELSE d[i]]
    ELSE Append(d, [name |-> name, pl |-> pl])
DictDel(d, name) == SelectSeq(d, LAMBDA item : item.name # name)
DictKeys(d) == [i \in 1..Len(d) |-> d[i].name]
DictValues(d) == {d[i].pl : i \in 1..Len(d)}

\* the objects still referenced from the manager
Live(d, cur) == DictValues(d) \cup ({cur} \ {None})

\* the filtered playlist of the last export, if the session got that far
HasFiltered == exported.status \in {"exported", "failed", "unsupported"}
ExportedObjects == IF HasFiltered THEN {exported.filtered_id} ELSE {}

\* the identities in use
Objects == DOMAIN heap \cup ExportedObjects

\* a newly built playlist object that is handed out again
NewId_reuse ==
    IF current_playlist # None THEN current_playlist
    ELSE CHOOSE i \in 1..(Cardinality(Objects) + 1) : i \notin Objects

\* the identity of a newly built playlist object
NewId == CHOOSE i \in 1..(Cardinality(Objects) + 1) : i \notin Objects

\* the heap with object id holding obj, cut down to what d and cur reference
HeapWith(id, obj, d, cur) ==
    [i \in Live(d, cur) |-> IF i = id THEN obj ELSE heap[i]]

\* pl.length()
length(pl) == Len(heap[pl].channels)

\* time.time() / time.strftime move on
Tick ==
    /\ now < MaxTime
    /\ now' = now + 1
    /\ UNCHANGED <<call, nops, ui, multi, histVars, selVars, regVars, expVars>>

\* urlparse(url) raises ValueError for a location it cannot split, such as
\* "http://[x" (Invalid IPv6 URL); no playlist is fetched from such a location
UnsplitUrl == Url(0, 1)
urlparse_raises(url) == url = UnsplitUrl

\* a load that stores the playlist and keeps the current playlist, unless the
\* name held the current playlist
load_playlist_from_url_putonly(url, playlist_name, fetched, outcome) ==
    /\ ui = "tui" => playlist_name = NoName
    /\ urlparse_raises(url) => fetched.kind # "ok"
    /\ IF fetched.kind = "ok"
       THEN LET pl == NewId
                name == IF playlist_name = NoName
                        THEN GeneratedName(netloc(url), now)
                        ELSE playlist_name
                stored == DictPut(loaded_playlists, name, pl)
                cur == IF DictHas(loaded_playlists, name)
                          /\ DictGet(loaded_playlists, name) = current_playlist
                       THEN pl ELSE current_playlist
            IN  /\ Len(stored) <= MaxLoaded
                /\ current_playlist' = cur
                /\ loaded_playlists' = stored
                /\ heap' = HeapWith(pl, fetched.pl, stored, cur)
                /\ url_history' = add_to_history(url_history, url, TRUE,
                                                 Len(fetched.pl.channels), now)
                /\ history_file' = save_url_history(url_history', history_file, outcome)
                /\ call' = [op |-> "load", url |-> url, result |-> TRUE,
                            name |-> name, given |-> playlist_name,
                            raised |-> "none", propagated |-> "none",
                            outcome |-> outcome,
                            was_current |-> current_playlist,
                            overwrote |-> DictHas(loaded_playlists, name)]
       ELSE /\ url_history' = add_to_history(url_history, url, FALSE, 0, now)
            /\ history_file' = save_url_history(url_history', history_file, outcome)
            /\ call' = [op |-> "load", url |-> url, result |-> FALSE,
                        name |-> playlist_name, raised |-> fetched.kind,
                        propagated |-> "none", outcome |-> outcome,
                        was_current |-> current_playlist, overwrote |-> FALSE]
            /\ UNCHANGED regVars
    /\ UNCHANGED <<now, ui, last_rec, selVars, expVars>>

\* load_playlist_from_url(url, sanitize, playlist_name): the try body when
\* loadu and the sanitizer return, the except branches when one of them
\* raises; outcome is how the write of _save_url_history ends.  In an except
\* branch add_to_history calls urlparse(url) first: when that raises, the
\* ValueError leaves load_playlist_from_url and nothing is recorded.
load_playlist_from_url(url, playlist_name, fetched, outcome) ==
    /\ ui = "tui" => playlist_name = NoName
    /\ urlparse_raises(url) => fetched.kind # "ok"
    /\ IF fetched.kind = "ok"
       THEN LET pl == NewId
                name == IF playlist_name = NoName
                        THEN GeneratedName(netloc(url), now)
                        ELSE playlist_name
                stored == DictPut(loaded_playlists, name, pl)
            IN  /\ Len(stored) <= MaxLoaded
                /\ current_playlist' = pl
                /\ loaded_playlists' = stored
                /\ heap' = HeapWith(pl, fetched.pl, stored, pl)
                /\ url_history' = add_to_history(url_history, url, TRUE,
                                                 Len(fetched.pl.channels), now)
                /\ history_file' = save_url_history(url_history', history_file, outcome)
                /\ call' = [op |-> "load", url |-> url, result |-> TRUE,
                            name |-> name, given |-> playlist_name,
                            raised |-> "none", propagated |-> "none",
                            outcome |-> outcome,
                            was_current |-> current_playlist,
                            overwrote |-> DictHas(loaded_playlists, name)]
       ELSE IF urlparse_raises(url)
       THEN /\ call' = [op |-> "load", url |-> url, result |-> FALSE,
                        name |-> playlist_name, raised |-> fetched.kind,
                        propagated |-> "ValueError", outcome |-> "none",
                        was_current |-> current_playlist, overwrote |-> FALSE]
            /\ UNCHANGED <<url_history, history_file, regVars>>
       ELSE /\ url_history' = add_to_history(url_history, url, FALSE, 0, now)
            /\ history_file' = save_url_history(url_history', history_file, outcome)
            /\ call' = [op |-> "load", url |-> url, result |-> FALSE,
                        name |-> playlist_name, raised |-> fetched.kind,
                        propagated |-> "none", outcome |-> outcome,
                        was_current |-> current_playlist, overwrote |-> FALSE]
            /\ UNCHANGED regVars
    /\ UNCHANGED <<now, ui, last_rec, selVars, expVars>>

\* one load asked for by the operator (_load_playlist_interactive, the command
\* line)
LoadSave(url, playlist_name, fetched, outcome) ==
    /\ nops < MaxOps
    /\ nops' = nops + 1
    /\ load_playlist_from_url(url, playlist_name, fetched, outcome)
    /\ UNCHANGED multi

\* the same when the history file can be written
Load(url, playlist_name, fetched) == LoadSave(url, playlist_name, fetched, "written")

\* manage_loaded_playlists with the rich prompts: the number of the playlist
\* to make current (0 to cancel), then the management action
manage_loaded_playlists_rich(choice, action, remove_choice) ==
    LET playlist_names == DictKeys(loaded_playlists)
        switched == IF choice > 0 /\ choice <= Len(playlist_names)
                    THEN DictGet(loaded_playlists, playlist_names[choice])
                    ELSE current_playlist
        kept == IF action = "remove" /\ remove_choice > 0
                THEN DictDel(loaded_playlists, playlist_names[remove_choice])
                ELSE loaded_playlists
    IN  /\ ui = "rich"
        /\ nops < MaxOps
        /\ nops' = nops + 1
        /\ loaded_playlists # <<>>
        \* IntPrompt.ask accepts only its choices
        /\ choice \in 0..Len(playlist_names)
        \* the number to remove is asked for only after "remove" (0: not asked)
        /\ IF action = "remove" THEN remove_choice \in 1..Len(playlist_names)
                                ELSE remove_choice = 0
        /\ current_playlist' = switched
        /\ loaded_playlists' = kept
        /\ heap' = [i \in Live(kept, switched) |-> heap[i]]
        /\ call' = [op |-> "manage", choice |-> choice,
                    action |-> action, remove_choice |-> remove_choice]
        /\ UNCHANGED <<now, multi, ui, histVars, selVars, expVars>>

\* what may be typed at the plain prompt for the playlist number
TypedNumbers == {<<>>, <<"x">>, <<"0">>, <<"1">>, <<" ", "2", " ">>, <<"3">>}

\* str.isdigit
isdigit(str) == str # <<>> /\ \A i \in 1..Len(str) : str[i] \in Digits

\* a switch that falls back to the first playlist
manage_loaded_playlists_simple_first(typed) ==
    LET playlist_names == DictKeys(loaded_playlists)
        choice == strip(typed)
        choice_num == IntValue(choice)
    IN  /\ ui = "simple"
        /\ nops < MaxOps
        /\ nops' = nops + 1
        /\ loaded_playlists # <<>>
        /\ current_playlist' =
              IF isdigit(choice) /\ 0 < choice_num /\ choice_num <= Len(playlist_names)
              THEN DictGet(loaded_playlists, playlist_names[choice_num])
              ELSE DictGet(loaded_playlists, playlist_names[1])
        /\ heap' = [i \in Live(loaded_playlists, current_playlist') |-> heap[i]]
        /\ call' = [op |-> "switch", typed |-> typed, was_current |-> current_playlist]
        /\ UNCHANGED <<loaded_playlists, now, multi, ui, histVars, selVars, expVars>>

\* manage_loaded_playlists without rich: only the switch
manage_loaded_playlists_simple(typed) ==
    LET playlist_names == DictKeys(loaded_playlists)
        choice == strip(typed)
        choice_num == IntValue(choice)
    IN  /\ ui = "simple"
        /\ nops < MaxOps
        /\ nops' = nops + 1
        /\ loaded_playlists # <<>>
        /\ current_playlist' =
              IF isdigit(choice) /\ 0 < choice_num /\ choice_num <= Len(playlist_names)
              THEN DictGet(loaded_playlists, playlist_names[choice_num])
              ELSE current_playlist
        /\ heap' = [i \in Live(loaded_playlists, current_playlist') |-> heap[i]]
        /\ call' = [op |-> "switch", typed |-> typed, was_current |-> current_playlist]
        /\ UNCHANGED <<loaded_playlists, now, multi, ui, histVars, selVars, expVars>>

\* a loop that stops after the first name
MergeLoop_firstonly(playlist_names, k, merged_pl) ==
    IF k <= Len(playlist_names) /\ DictHas(loaded_playlists, playlist_names[k])
    THEN append_channels(merged_pl,
             get_channels(heap[DictGet(loaded_playlists, playlist_names[k])]))
    ELSE merged_pl

RECURSIVE MergeLoop(_, _, _)
\* the for loop of merge_playlists from the k-th name on: every name found in
\* the registry appends its channels to merged_pl
MergeLoop(playlist_names, k, merged_pl) ==
    IF k > Len(playlist_names) THEN merged_pl
    ELSE IF DictHas(loaded_playlists, playlist_names[k])
    THEN MergeLoop(playlist_names, k + 1,
                   append_channels(merged_pl,
                       get_channels(heap[DictGet(loaded_playlists, playlist_names[k])])))
    ELSE MergeLoop(playlist_names, k + 1, merged_pl)

\* a merge that gives up when none of the names is registered
merge_playlists_strict(names_arg, merged_name_arg, picked) ==
    LET playlist_names == IF names_arg = <<>> THEN picked ELSE names_arg
        merged_name == IF merged_name_arg = NoName THEN MergedName(now)
                       ELSE merged_name_arg
        merged_pl == NewId
        stored == DictPut(loaded_playlists, merged_name, merged_pl)
        returns_early == \/ names_arg = <<>> /\ (loaded_playlists = <<>> \/ picked = <<>>)
                         \/ \A k \in 1..Len(playlist_names) :
                               ~DictHas(loaded_playlists, playlist_names[k])
    IN  /\ ui # "tui"
        /\ nops < MaxOps
        /\ nops' = nops + 1
        /\ names_arg # <<>> => picked = <<>>
        /\ Range(picked) \subseteq Range(DictKeys(loaded_playlists))
        /\ IF returns_early
           THEN /\ UNCHANGED regVars
                /\ call' = [op |-> "merge", names |-> names_arg,
                            merged_name |-> merged_name_arg, merged |-> FALSE,
                            names_arg |-> names_arg]
           ELSE /\ Len(stored) <= MaxLoaded
                /\ loaded_playlists' = stored
                /\ current_playlist' = merged_pl
                /\ heap' = HeapWith(merged_pl, MergeLoop(playlist_names, 1, M3UPlaylist),
                                    stored, merged_pl)
                /\ call' = [op |-> "merge", names |-> playlist_names,
                            merged_name |-> merged_name, merged |-> TRUE,
                            names_arg |-> names_arg,
                            sources |-> {DictGet(loaded_playlists, playlist_names[k]) :
                                           k \in {j \in 1..Len(playlist_names) :
                                                  DictHas(loaded_playlists, playlist_names[j])}}]
        /\ UNCHANGED <<now, multi, ui, histVars, selVars, expVars>>

\* merge_playlists(playlist_names, merged_name); picked is what
\* _select_multiple_playlists returns when no names are passed in
merge_playlists(names_arg, merged_name_arg, picked) ==
    LET playlist_names == IF names_arg = <<>> THEN picked ELSE names_arg
        merged_name == IF merged_name_arg = NoName THEN MergedName(now)
                       ELSE merged_name_arg
        merged_pl == NewId
        stored == DictPut(loaded_playlists, merged_name, merged_pl)
        returns_early == names_arg = <<>> /\ (loaded_playlists = <<>> \/ picked = <<>>)
    IN  /\ ui # "tui"
        /\ nops < MaxOps
        /\ nops' = nops + 1
        /\ names_arg # <<>> => picked = <<>>
        /\ Range(picked) \subseteq Range(DictKeys(loaded_playlists))
        /\ IF returns_early
           THEN /\ UNCHANGED regVars
                /\ call' = [op |-> "merge", names |-> names_arg,
                            merged_name |-> merged_name_arg, merged |-> FALSE,
                            names_arg |-> names_arg]
           ELSE /\ Len(stored) <= MaxLoaded
                /\ loaded_playlists' = stored
                /\ current_playlist' = merged_pl
                /\ heap' = HeapWith(merged_pl, MergeLoop(playlist_names, 1, M3UPlaylist),
                                    stored, merged_pl)
                /\ call' = [op |-> "merge", names |-> playlist_names,
                            merged_name |-> merged_name, merged |-> TRUE,
                            names_arg |-> names_arg,
                            sources |-> {DictGet(loaded_playlists, playlist_names[k]) :
                                           k \in {j \in 1..Len(playlist_names) :
                                                  DictHas(loaded_playlists, playlist_names[j])}}]
        /\ UNCHANGED <<now, multi, ui, histVars, selVars, expVars>>

\* the names merge can be called with: registered ones and one that is not
MergeNameLists ==
    LET known == Range(DictKeys(loaded_playlists)) \cup {<<"given", 2>>}
    IN  {<<>>} \cup {<<a>> : a \in known} \cup {<<a, b>> : a \in known, b \in known}

Init ==
    /\ url_history = <<>>
    /\ last_rec = <<>>
    /\ history_file = FileOf(url_history)
    /\ multi = NoMulti
    /\ now = 0
    /\ call = NoCall
    /\ nops = 0
    /\ ui \in {"rich", "simple", "tui"}
    /\ SelIdle
    /\ RegEmpty

Next ==
    \/ Tick
    \/ \E url \in LoadUrls \cup {UnsplitUrl}, playlist_name \in {NoName} \cup GivenNames,
          fetched \in FetchOutcomes :
          Load(url, playlist_name, fetched)
    \/ \E choice \in 0..MaxLoaded, remove_choice \in 0..MaxLoaded,
          action \in {"switch", "remove", "merge", "cancel"} :
          manage_loaded_playlists_rich(choice, action, remove_choice)
    \/ \E typed \in TypedNumbers : manage_loaded_playlists_simple(typed)
    \/ \E names_arg \in MergeNameLists, merged_name_arg \in {NoName, <<"given", 1>>} :
       \E picked \in IF names_arg = <<>> THEN MergeNameLists ELSE {<<>>} :
          merge_playlists(names_arg, merged_name_arg, picked)

Spec == Init /\ [][Next]_vars

----------------------------------------------------------------------------
(* The current playlist and the registry                                    *)

\* C1: at every point after a load, a switch, a removal or a merge, the
\* current playlist is either undefined or one of the playlists held in the
\* registry; in particular, once the current playlist has been removed from
\* the registry, the current playlist is undefined.
C1_Claimed_CurrentIsRegisteredOrNone ==
    \/ current_playlist = None
    \/ current_playlist \in DictValues(loaded_playlists)

\* the registry entries under other names than name: the name and the object
Entries(reg, name) ==
    {<<reg[i].name, reg[i].pl>> : i \in {j \in 1..Len(reg) : reg[j].name # name}}

\* this step is a load that stored a playlist
StoreStep == call'.op = "load" /\ nops' = nops + 1 /\ call'.result

\* name holds the current playlist
HoldsCurrent(name) ==
    /\ DictHas(loaded_playlists, name)
    /\ DictGet(loaded_playlists, name) = current_playlist

\* C21 as claimed: storing a playlist under a name, as a completed load does,
\* does not change which playlist is current unless that name already held
\* the current playlist, and then the current playlist is the one newly
\* stored under the name.
C21_Claimed_StoreKeepsCurrent ==
    [][StoreStep =>
        IF HoldsCurrent(call'.name)
        THEN current_playlist' = DictGet(loaded_playlists', call'.name)
        ELSE current_playlist' = current_playlist
    ]_vars

\* C21: a completed load stores the new playlist under the name, in place of
\* any playlist of that name and leaving every other registry entry as it was,
\* and the newly stored playlist is the current one afterwards, whether or
\* not the name held the current playlist before.
C21_StoreMakesCurrent ==
    [][StoreStep =>
        LET name == call'.name
        IN  /\ DictHas(loaded_playlists', name)
            /\ current_playlist' = DictGet(loaded_playlists', name)
            /\ current_playlist' \notin DOMAIN heap
            /\ Cardinality({i \in 1..Len(loaded_playlists') :
                               loaded_playlists'[i].name = name}) = 1
            /\ Entries(loaded_playlists', name) = Entries(loaded_playlists, name)
            /\ \A i \in 1..Len(loaded_playlists) :
                   loaded_playlists[i].name # name =>
                       heap'[loaded_playlists[i].pl] = heap[loaded_playlists[i].pl]
    ]_vars

\* a load under a name the registry did not hold has made its playlist
\* current while another playlist was current
C21_Witness ==
    /\ call.op = "load"
    /\ call.result
    /\ ~call.overwrote
    /\ call.was_current # None
    /\ current_playlist # call.was_current
    /\ current_playlist = DictGet(loaded_playlists, call.name)
    /\ call.was_current \in DictValues(loaded_playlists)

\* this step is a load whose fetch or sanitizer raised
FailedLoadStep == call'.op = "load" /\ nops' = nops + 1 /\ call'.raised # "none"

\* the history after a record of url with the outcome (success, channel_count):
\* that entry first, once, then the entries of the other locations as before
RecordedFirst(url, success, channel_count) ==
    /\ Len(url_history') >= 1
    /\ url_history'[1].url = url
    /\ url_history'[1].success = success
    /\ url_history'[1].channel_count = channel_count
    /\ Cardinality(Occurrences(url_history', url)) = 1
    /\ Others(url_history', url) = Others(url_history, url)

\* C23 as claimed: when a load fails, the current playlist and the registry
\* are as before the attempt, exactly one history entry for the location is
\* recorded at the front with success false and entry count 0, and the load
\* reports failure instead of letting the error out.
C23_Claimed_FailedLoadRecordsAndReports ==
    [][FailedLoadStep =>
        /\ current_playlist' = current_playlist
        /\ loaded_playlists' = loaded_playlists
        /\ heap' = heap
        /\ RecordedFirst(call'.url, FALSE, 0)
        /\ call'.propagated = "none"
        /\ call'.result = FALSE
    ]_vars

\* the same for the locations urlparse can split: there the claim holds
C23_FailedLoadOfSplitLocation ==
    [][(FailedLoadStep /\ ~urlparse_raises(call'.url)) =>
        /\ current_playlist' = current_playlist
        /\ loaded_playlists' = loaded_playlists
        /\ heap' = heap
        /\ RecordedFirst(call'.url, FALSE, 0)
        /\ call'.propagated = "none"
        /\ call'.result = FALSE
    ]_vars

\* C35 as claimed: a successful load under a generated name never takes the
\* place of a playlist already in the registry: the registry holds one
\* playlist more after it, every earlier entry still there, whatever the
\* locations and the times of the loads are.
C35_Claimed_GeneratedNameNeverOverwrites ==
    [][(StoreStep /\ call'.given = NoName) =>
          /\ Len(loaded_playlists') = Len(loaded_playlists) + 1
          /\ \A k \in 1..Len(loaded_playlists) :
                 /\ DictHas(loaded_playlists', loaded_playlists[k].name)
                 /\ DictGet(loaded_playlists', loaded_playlists[k].name)
                       = loaded_playlists[k].pl]_vars

\* C24: when a load succeeds, the loaded playlist is stored in the registry
\* under the supplied name, or under a generated name when none is supplied,
\* it is the current playlist, and exactly one history entry for the location
\* stands at the front, with success true and the playlist's length as its
\* entry count.
C24_LoadStoresMakesCurrentRecords ==
    [][StoreStep =>
        LET name == call'.name
        IN  /\ IF call'.given = NoName
               THEN name = GeneratedName(call'.url.host, now)
               ELSE name = call'.given
            /\ DictHas(loaded_playlists', name)
            /\ DictGet(loaded_playlists', name) = current_playlist'
            /\ current_playlist' \in DOMAIN heap'
            /\ RecordedFirst(call'.url, TRUE, Len(heap'[current_playlist'].channels))
            /\ history_file' = HistoryFile("array", url_history')
    ]_vars

\* a playlist of two entries was loaded under a supplied name after another
\* location had been recorded
C24_Witness ==
    /\ call.op = "load"
    /\ call.result
    /\ call.given # NoName
    /\ call.name \in GivenNames
    /\ Len(heap[current_playlist].channels) = 2
    /\ Len(url_history) = 2
    /\ url_history[1].url = call.url
    /\ url_history[1].channel_count = 2

----------------------------------------------------------------------------
(* Export sessions: export_with_group_filter (src/main.py), _export_tui and *)
(* _perform_export (src/tui.py)                                             *)

\* M3UPlaylist.NO_GROUP_KEY, the key of the bucket of channels without a group
NO_GROUP_KEY == "_NO_GROUP_"

\* the key under which the group index files a channel
GroupKey(channel) == IF channel.group = "" THEN NO_GROUP_KEY ELSE channel.group

\* groups[key] = groups.get(key, []) + [i]
GroupsAdd(g, key, i) ==
    IF \E n \in 1..Len(g) : g[n].label = key
    THEN [n \in 1..Len(g) |->
            IF g[n].label = key
            THEN [label |-> key, positions |-> Append(g[n].positions, i)]
            ELSE g[n]]
    ELSE Append(g, [label |-> key, positions |-> <<i>>])

RECURSIVE GroupLoop(_, _, _)
GroupLoop(channels, k, g) ==
    IF k > Len(channels) THEN g
    ELSE GroupLoop(channels, k + 1, GroupsAdd(g, GroupKey(channels[k]), k - 1))

\* pl.group_by_attribute(): label -> positions (counted from 0) in playlist order
group_by_attribute(pl) == GroupLoop(get_channels(pl), 1, <<>>)

\* groups.keys()
GroupKeys(g) == {g[n].label : n \in 1..Len(g)}
\* groups[label]
GroupPositions(g, label) == g[CHOOSE n \in 1..Len(g) : g[n].label = label].positions

\* the labels in the order sorted() gives them
LabelOrder == <<"Music", "News", "Sports">>
sorted(S) == SelectSeq(LabelOrder, LAMBDA label : label \in S)

\* sorted([name for name in groups.keys() if name != NO_GROUP_KEY])
GroupNames(g) == sorted(GroupKeys(g) \ {NO_GROUP_KEY})

\* the playlists loaded before the sessions start
StoredLoads ==
    <<[url |-> Url(1, 1),
       pl |-> Playlist(<<Channel("a1", "News"), Channel("a2", "Sports"),
                         Channel("a3", "News")>>, {<<"x-tvg-url", "guide">>})],
      [url |-> Url(2, 1),
       pl |-> Playlist(<<Channel("b1", "Music"), Channel("b2", ""),
                         Channel("b3", "Sports"), Channel("b4", "Music"),
                         Channel("b5", "")>>,
                       {<<"url-tvg", "epg">>, <<"refresh", "3600">>})]>>

RECURSIVE StoredUrlHistory(_)
StoredUrlHistory(k) ==
    IF k = 0 THEN <<>>
    ELSE add_to_history(StoredUrlHistory(k - 1), StoredLoads[k].url, TRUE,
                        Len(StoredLoads[k].pl.channels), 0)

\* the manager after the first k of StoredLoads were loaded within one second
Loaded(k) ==
    /\ loaded_playlists =
          [i \in 1..k |-> [name |-> GeneratedName(netloc(StoredLoads[i].url), 0),
                           pl |-> i]]
    /\ heap = [i \in 1..k |-> StoredLoads[i].pl]
    /\ current_playlist = IF k = 0 THEN None ELSE k
    /\ url_history = StoredUrlHistory(k)

\* a session is between its start and its end
InSession == sel_pc \in {"loop", "done", "export"}

\* export_with_group_filter up to the selection loop; _export_tui up to its loop
ExportBegin ==
    /\ ~InSession
    /\ IF current_playlist = None
       THEN /\ call' = [op |-> "export", refused |-> "No playlist loaded!"]
            /\ UNCHANGED <<group_names, selected_set, selected_list, sel_pc, expVars>>
       ELSE LET g == group_by_attribute(heap[current_playlist])
                names == GroupNames(g)
            IN  /\ groups' = g
                /\ exported' = NoExport
                /\ IF names = <<>>
                   THEN /\ call' = [op |-> "export", refused |-> "No groups found in playlist!"]
                        /\ selected_set' = IF ui = "tui" THEN {} ELSE selected_set
                        /\ UNCHANGED <<group_names, selected_list, sel_pc>>
                   ELSE StartSelection(names)
    /\ UNCHANGED ui

\* should_include = (channel_group in selected_groups) if not exclude
\*                  else (channel_group not in selected_groups)
should_include_always(channel, selected_groups, exclude) == TRUE
should_include_in(channel, selected_groups, exclude) ==
    channel.group \in selected_groups
should_include_grouped(channel, selected_groups, exclude) ==
    IF ~exclude THEN channel.group \in selected_groups
    ELSE channel.group # "" /\ channel.group \notin selected_groups
\* a test that lets every channel without a group through
should_include_untagged(channel, selected_groups, exclude) ==
    \/ channel.group = ""
    \/ IF ~exclude THEN channel.group \in selected_groups
       ELSE channel.group \notin selected_groups
should_include(channel, selected_groups, exclude) ==
    LET channel_group == channel.group
    IN  IF ~exclude THEN channel_group \in selected_groups
        ELSE channel_group \notin selected_groups

\* a new playlist with the attributes of the source
NewFiltered_bare(source) == M3UPlaylist
NewFiltered(source) == add_attributes(M3UPlaylist, get_attributes(source))

RECURSIVE FilterLoop(_, _, _, _, _)
\* for channel in self.current_playlist: ... append_channel, channels_exported += 1
FilterLoop(channels, k, selected_groups, exclude, acc) ==
    IF k > Len(channels) THEN acc
    ELSE FilterLoop(channels, k + 1, selected_groups, exclude,
            IF should_include(channels[k], selected_groups, exclude)
            THEN [filtered_pl |-> append_channel(acc.filtered_pl, channels[k]),
                  channels_exported |-> acc.channels_exported + 1]
            ELSE acc)

\* the filtered playlist and the count of the channels put into it
Filter(source, selected_groups, exclude) ==
    FilterLoop(get_channels(source), 1, selected_groups, exclude,
               [filtered_pl |-> NewFiltered(source), channels_exported |-> 0])

\* the formats the prompts offer; the answers given in these sessions, one of
\* them a format only the plain prompt lets through
Formats == {"json", "m3u", "m3u8"}
TypedFormats == {"m3u", "xml"}

\* the end of a session that reached the export options: the filter runs, the
\* playlist is encoded and written; written is whether encoding and writing
\* went through
WriteExport(format_choice, exclude, written) ==
    LET res == Filter(heap[current_playlist], Selection, exclude)
    IN  exported' =
            [status |-> IF format_choice \notin Formats THEN "unsupported"
                        ELSE IF written THEN "exported" ELSE "failed",
             filtered_pl |-> res.filtered_pl,
             channels_exported |-> res.channels_exported,
             exclude |-> exclude,
             format_choice |-> format_choice,
             selected |-> Selection,
             source |-> heap[current_playlist],
             source_id |-> current_playlist,
             filtered_id |-> NewId]

\* the figure that counts the selected labels instead of their channels
FilteredCount_labels(g, selected_groups) == Len(selected_groups)

RECURSIVE FilteredCount(_, _)
\* sum(len(groups[group]) for group in selected_groups)
FilteredCount(g, selected_groups) ==
    IF selected_groups = <<>> THEN 0
    ELSE Len(GroupPositions(g, Head(selected_groups)))
         + FilteredCount(g, Tail(selected_groups))

\* what the selection loop returned: list(selected_groups) of the set, in
\* some order, or the list itself
SelectedGroups ==
    IF ui = "simple" THEN selected_list
    ELSE CHOOSE order \in Perms(selected_set) : TRUE

\* the export summary: Selected Groups, Total Channels, Filtered Channels
ExportSummary ==
    [selected_groups |-> Len(SelectedGroups),
     total_channels |-> length(current_playlist),
     filtered_channels |-> FilteredCount(groups, SelectedGroups)]

\* export_with_group_filter after the selection loop returned
ExportFinish_noguard(format_choice, exclude, written) ==
    /\ ui \in {"rich", "simple"}
    /\ sel_pc = "done"
    /\ ui = "rich" => format_choice \in Formats
    /\ sel_pc' = "exported"
    /\ WriteExport(format_choice, exclude, written)
    /\ call' = [op |-> "finish", summary |-> <<ExportSummary>>]
    /\ UNCHANGED <<ui, group_names, selected_set, selected_list, groups>>

ExportFinish(format_choice, exclude, written) ==
    /\ ui \in {"rich", "simple"}
    /\ sel_pc = "done"
    /\ ui = "rich" => format_choice \in Formats
    /\ IF Selection = {}
       THEN \* "Export cancelled"
            /\ sel_pc' = "cancelled"
            /\ exported' = [status |-> "cancelled"]
       ELSE /\ sel_pc' = "exported"
            /\ WriteExport(format_choice, exclude, written)
    /\ call' = [op |-> "finish",
                summary |-> IF Selection = {} THEN <<>> ELSE <<ExportSummary>>]
    /\ UNCHANGED <<ui, group_names, selected_set, selected_list, groups>>

\* an export that also runs without a selection
PerformExport_noguard(format_choice, exclude, written) ==
    /\ ui = "tui"
    /\ sel_pc = "export"
    /\ format_choice \in Formats
    /\ sel_pc' = IF selected_set = {} THEN "cancelled" ELSE "exported"
    /\ WriteExport(format_choice, exclude, written)
    /\ call' = [op |-> "finish"]
    /\ UNCHANGED <<ui, group_names, selected_set, selected_list, groups>>

\* _perform_export, called for the command 'e'; the loop ends after it
PerformExport(format_choice, exclude, written) ==
    /\ ui = "tui"
    /\ sel_pc = "export"
    /\ format_choice \in Formats
    /\ IF selected_set = {}
       THEN \* "No groups selected!"
            /\ sel_pc' = "cancelled"
            /\ exported' = [status |-> "cancelled"]
       ELSE /\ sel_pc' = "exported"
            /\ WriteExport(format_choice, exclude, written)
    /\ call' = [op |-> "finish"]
    /\ UNCHANGED <<ui, group_names, selected_set, selected_list, groups>>

\* an export that takes the exported channels out of the source
ExportFinishStep_moves(format_choice, exclude, written) ==
    /\ ExportFinish(format_choice, exclude, written)
    /\ heap' = IF Selection = {} THEN heap
               ELSE [heap EXCEPT ![current_playlist].channels =
                        SelectSeq(@, LAMBDA channel :
                                     ~should_include(channel, Selection, exclude))]
    /\ UNCHANGED <<histVars, loaded_playlists, current_playlist, now, multi, nops>>

\* the whole of export_with_group_filter after the selection loop: nothing
\* of the manager is assigned, the filtered playlist stays local
ExportFinishStep(format_choice, exclude, written) ==
    /\ ExportFinish(format_choice, exclude, written)
    /\ UNCHANGED <<histVars, regVars, now, multi, nops>>

\* the lines typed in these sessions
TypedSession ==
    {<<"1">>, <<"2">>, <<"a", "l", "l">>, <<"n", "o", "n", "e">>,
     <<"d", "o", "n", "e">>, <<"x">>}
TypedCommands == {<<"1">>, <<"2">>, <<"a">>, <<"n">>, <<"e">>, <<"c">>, <<"d">>}

InitExp ==
    /\ \E k \in 1..Len(StoredLoads) : Loaded(k)
    /\ last_rec = <<>>
    /\ history_file = FileOf(url_history)
    /\ multi = NoMulti
    /\ now = 0
    /\ call = NoCall
    /\ nops = 0
    /\ ui \in {"rich", "simple", "tui"}
    /\ SelIdle

NextExp ==
    \/ ExportBegin /\ UNCHANGED <<histVars, regVars, now, multi, nops>>
    \/ \E typed \in TypedSession :
          EnhancedStep(typed) /\ UNCHANGED <<histVars, regVars, expVars, now, multi, nops>>
    \/ \E typed \in TypedSession :
          SimpleStep(typed) /\ UNCHANGED <<histVars, regVars, expVars, now, multi, nops>>
    \/ \E typed \in TypedCommands :
          TuiCommand(typed) /\ UNCHANGED <<histVars, regVars, expVars, now, multi, nops>>
    \/ \E format_choice \in TypedFormats, exclude \in BOOLEAN, written \in BOOLEAN :
          ExportFinishStep(format_choice, exclude, written)
    \/ \E format_choice \in TypedFormats, exclude \in BOOLEAN, written \in BOOLEAN :
          PerformExport(format_choice, exclude, written)
          /\ UNCHANGED <<histVars, regVars, now, multi, nops>>
    \/ ~InSession /\ \E fetched \in FetchOutcomes :
          fetched.kind = "ok" /\ Load(Url(1, 2), NoName, fetched)
    \/ ~InSession /\ \E choice \in 0..MaxLoaded :
          manage_loaded_playlists_rich(choice, "cancel", 0)
    \/ ~InSession /\ \E typed \in TypedNumbers : manage_loaded_playlists_simple(typed)

SpecExp == InitExp /\ [][NextExp]_vars

----------------------------------------------------------------------------
(* Claims about export sessions *)

\* C11: at every point of an export session the Selection holds only candidate
\* labels of the group index derived from the playlist that is current in that
\* session, and a session starts with an empty Selection, so that no label of
\* an earlier session is carried into it.
C11_SelectionWithinSessionLabels ==
    /\ InSession =>
          /\ current_playlist # None
          /\ groups = group_by_attribute(heap[current_playlist])
          /\ Range(group_names) = GroupKeys(groups) \ {NO_GROUP_KEY}
          /\ Selection \subseteq Range(group_names)
    /\ call.op = "start" => Selection = {}

\* a session has started on a playlist that lacks a label selected in the
\* session before
C11_Witness ==
    /\ call.op = "start"
    /\ sel_pc = "loop"
    /\ \E label \in call.before : label \notin Range(group_names)

\* the group label of an entry is its group-title, "" standing for none
Included(source, S, exclude) ==
    SelectSeq(get_channels(source),
              LAMBDA entry : IF exclude THEN entry.group \notin S ELSE entry.group \in S)

\* the label sets a filter can be handed
LabelSets == SUBSET Labels

\* the playlists alive
LivePlaylists == {heap[id] : id \in DOMAIN heap}

\* C12: for every source playlist, label set S and flag exclude, the filtered
\* playlist holds exactly the source entries whose group label is in S
\* (exclude false) or not in S (exclude true), in source order, each once, and
\* the count of exported entries is the number of entries of the result.
C12_FilterKeepsExactlyTheMatching ==
    /\ \A source \in LivePlaylists, S \in LabelSets, exclude \in BOOLEAN :
          LET res == Filter(source, S, exclude)
          IN  /\ get_channels(res.filtered_pl) = Included(source, S, exclude)
              /\ res.channels_exported = Len(get_channels(res.filtered_pl))
    /\ sel_pc = "exported" =>
          /\ get_channels(exported.filtered_pl) =
                Included(exported.source, exported.selected, exported.exclude)
          /\ exported.channels_exported = Len(get_channels(exported.filtered_pl))

\* an export with exclude that kept some entries and dropped others
C12_Witness ==
    /\ sel_pc = "exported"
    /\ exported.exclude
    /\ exported.channels_exported > 0
    /\ exported.channels_exported < Len(get_channels(exported.source))

\* C13: for any playlist and label set S, the result with exclude false and
\* the result with exclude true have no entry in common, together hold every
\* entry of the playlist, and their counts add up to its length.
C13_IncludeAndExcludePartition ==
    /\ \A source \in LivePlaylists, S \in LabelSets :
          LET kept == Filter(source, S, FALSE)
              dropped == Filter(source, S, TRUE)
          IN  /\ Range(get_channels(kept.filtered_pl))
                    \cap Range(get_channels(dropped.filtered_pl)) = {}
              /\ Range(get_channels(kept.filtered_pl))
                    \cup Range(get_channels(dropped.filtered_pl))
                    = Range(get_channels(source))
              /\ kept.channels_exported + dropped.channels_exported
                    = Len(get_channels(source))
    /\ sel_pc = "exported" =>
          LET source == exported.source
              other == Filter(source, exported.selected, ~exported.exclude)
          IN  /\ Range(get_channels(exported.filtered_pl))
                    \cap Range(get_channels(other.filtered_pl)) = {}
              /\ Range(get_channels(exported.filtered_pl))
                    \cup Range(get_channels(other.filtered_pl))
                    = Range(get_channels(source))
              /\ exported.channels_exported + other.channels_exported
                    = Len(get_channels(source))

\* an export without exclude from a playlist that has entries without a group,
\* where both parts of the partition are non-empty
C13_Witness ==
    /\ sel_pc = "exported"
    /\ ~exported.exclude
    /\ \E i \in 1..Len(get_channels(exported.source)) :
          get_channels(exported.source)[i].group = ""
    /\ exported.channels_exported > 0
    /\ exported.channels_exported < Len(get_channels(exported.source))

\* C14: the filtered playlist carries exactly the playlist-level attributes of
\* the source playlist, for either value of exclude and any selection, also
\* when no entry is included.
C14_FilteredCarriesSourceAttributes ==
    /\ \A source \in LivePlaylists, S \in LabelSets, exclude \in BOOLEAN :
          get_attributes(Filter(source, S, exclude).filtered_pl) = get_attributes(source)
    /\ sel_pc = "exported" =>
          get_attributes(exported.filtered_pl) = get_attributes(exported.source)

\* an export that included no entry, from a playlist that has attributes
C14_Witness ==
    /\ sel_pc = "exported"
    /\ exported.channels_exported = 0
    /\ get_attributes(exported.source) # {}
    /\ get_attributes(exported.filtered_pl) # {}

\* C15 as claimed: with an empty Selection and exclude false the export flow
\* produces a filtered playlist with zero entries and takes it as a valid
\* result; the export is not refused or cancelled.
C15_Claimed_EmptySelectionExportsNothing ==
    (call.op = "finish" /\ Selection = {}) =>
        /\ sel_pc = "exported"
        /\ exported.status # "cancelled"
        /\ exported.channels_exported = 0

\* C15, amended: a session that ends with an empty Selection is ended as
\* cancelled before the export options are asked; no filtered playlist is
\* built and nothing is written. Every export that does run has a non-empty
\* Selection. The filter itself, handed an empty label set with exclude false,
\* includes no entry.
C15_EmptySelectionCancelsTheExport ==
    /\ (call.op = "finish" /\ Selection = {}) =>
          /\ sel_pc = "cancelled"
          /\ exported = [status |-> "cancelled"]
    /\ sel_pc = "exported" => exported.selected # {}
    /\ \A source \in LivePlaylists : Filter(source, {}, FALSE).channels_exported = 0

\* a session over a playlist with groups was finished with nothing selected
C15_Witness ==
    /\ call.op = "finish"
    /\ Selection = {}
    /\ group_names # <<>>
    /\ sel_pc = "cancelled"

\* C16 as claimed: when the Selection is the full set of labels offered and
\* exclude is true, the filtered playlist has zero entries, for every source
\* playlist, also one that has entries without a group label.
C16_Claimed_ExcludeAllLeavesNothing ==
    (sel_pc = "exported" /\ exported.exclude
        /\ exported.selected = Range(group_names)) =>
        /\ exported.channels_exported = 0
        /\ get_channels(exported.filtered_pl) = <<>>

\* C16, amended: when the Selection is the full set of labels offered and
\* exclude is true, the filtered playlist holds exactly the entries of the
\* source without a group label, in source order; it has zero entries exactly
\* when every entry of the source has a group label.
C16_ExcludeAllLeavesTheUngrouped ==
    (sel_pc = "exported" /\ exported.exclude
        /\ exported.selected = Range(group_names)) =>
        /\ get_channels(exported.filtered_pl) =
              SelectSeq(get_channels(exported.source), LAMBDA entry : entry.group = "")
        /\ exported.channels_exported = Len(get_channels(exported.filtered_pl))

\* every label offered was selected and excluded, and entries without a group
\* label were exported
C16_Witness ==
    /\ sel_pc = "exported"
    /\ exported.exclude
    /\ exported.selected = Range(group_names)
    /\ Len(group_names) > 1
    /\ exported.channels_exported > 0

\* this step abandons the export flow: 'c' in the loop of the TUI, or the end
\* of the selection without a label selected
AbandonStep == sel_pc \in {"loop", "done", "export"} /\ sel_pc' = "cancelled"

\* C28: when the operator abandons a selection/export flow before the export
\* is carried out (the cancel command of the TUI, or finishing without a
\* selection), no export file is written, nothing is persisted (history and
\* history file are as before, the registry too), and the labels selected so
\* far are not in the Selection of a later session, which starts empty.
C28_AbandonedFlowWritesNothing ==
    [][/\ AbandonStep =>
            /\ exported'.status \in {"none", "cancelled"}
            /\ exported.status = "none"
            /\ url_history' = url_history
            /\ history_file' = history_file
            /\ loaded_playlists' = loaded_playlists
            /\ current_playlist' = current_playlist
            /\ heap' = heap
       /\ (sel_pc = "cancelled" /\ sel_pc' = "loop") => Selection' = {}
    ]_vars

\* a session has started, with nothing selected and nothing written, after a
\* session that was cancelled with labels selected
C28_Witness ==
    /\ call.op = "start"
    /\ call.ended = "cancelled"
    /\ call.before # {}
    /\ sel_pc = "loop"
    /\ Selection = {}
    /\ exported = NoExport

----------------------------------------------------------------------------
(* The group index: export sessions on one playlist, for every playlist of  *)
(* up to MaxEntries channels and for one of ten                             *)

\* channels of the playlists tried
MaxEntries == 3

\* the group-title values of their channels ("": the attribute is missing or
\* empty)
IdxLabels == {"", "News", "Sports"}

\* ten channels, six of the group Sports and four without a group
ScenarioLabels ==
    <<"Sports", "", "Sports", "Sports", "", "Sports", "", "Sports", "Sports", "">>

ChannelNames == <<"c1", "c2", "c3", "c4", "c5", "c6", "c7", "c8", "c9", "c10">>

IdxPlaylist(labels) ==
    Playlist([i \in 1..Len(labels) |-> Channel(ChannelNames[i], labels[i])], {})

IdxPlaylists ==
    {IdxPlaylist(labels) :
        labels \in UNION {[1..n -> IdxLabels] : n \in 0..MaxEntries} \cup {ScenarioLabels}}

\* what is typed in these sessions
TypedIdx == {<<"1">>, <<"2">>, <<"d", "o", "n", "e">>}
TypedIdxCommands == {<<"1">>, <<"2">>, <<"e">>}

\* the manager after one load
InitIdx ==
    /\ \E pl \in IdxPlaylists :
          /\ heap = <<pl>>
          /\ url_history = add_to_history(<<>>, Url(1, 1), TRUE, Len(get_channels(pl)), 0)
    /\ loaded_playlists = <<[name |-> GeneratedName(netloc(Url(1, 1)), 0), pl |-> 1]>>
    /\ current_playlist = 1
    /\ last_rec = <<>>
    /\ history_file = FileOf(url_history)
    /\ multi = NoMulti
    /\ now = 0
    /\ call = NoCall
    /\ nops = 0
    /\ ui \in {"rich", "simple", "tui"}
    /\ SelIdle

NextIdx ==
    \/ ExportBegin /\ UNCHANGED <<histVars, regVars, now, multi, nops>>
    \/ \E typed \in TypedIdx :
          EnhancedStep(typed) /\ UNCHANGED <<histVars, regVars, expVars, now, multi, nops>>
    \/ \E typed \in TypedIdx :
          SimpleStep(typed) /\ UNCHANGED <<histVars, regVars, expVars, now, multi, nops>>
    \/ \E typed \in TypedIdxCommands :
          TuiCommand(typed) /\ UNCHANGED <<histVars, regVars, expVars, now, multi, nops>>
    \/ \E exclude \in BOOLEAN :
          ExportFinish("m3u", exclude, TRUE) /\ UNCHANGED <<histVars, regVars, now, multi, nops>>
    \/ \E exclude \in BOOLEAN :
          PerformExport("m3u", exclude, TRUE) /\ UNCHANGED <<histVars, regVars, now, multi, nops>>

SpecIdx == InitIdx /\ [][NextIdx]_vars

\* the buckets of g that hold position p
BucketsOf(g, p) ==
    {n \in 1..Len(g) : \E k \in 1..Len(g[n].positions) : g[n].positions[k] = p}

RECURSIVE BucketSizes(_)
\* the sizes of the buckets of g, added up
BucketSizes(g) ==
    IF g = <<>> THEN 0 ELSE Len(Head(g).positions) + BucketSizes(Tail(g))

\* the label of a channel, the sentinel when it has none
LabelOrSentinel(channel) ==
    IF channel.group = "" THEN "_NO_GROUP_" ELSE channel.group

\* C25: the group index of a playlist places every entry position in exactly
\* one bucket: the bucket of the entry's group label when it has a non-empty
\* one, the sentinel bucket when the label is missing or empty; the positions
\* of a bucket stand in source order; the bucket sizes add up to the length
\* of the playlist; and the filter on one label with exclude false returns as
\* many entries as that label's bucket holds.
C25_EveryPositionInOneBucket ==
    (sel_pc # "idle" \/ call.op = "export") =>
        LET channels == get_channels(heap[current_playlist])
            g == groups
        IN  /\ \A m, n \in 1..Len(g) : g[m].label = g[n].label => m = n
            /\ \A p \in 0..(Len(channels) - 1) :
                   /\ Cardinality(BucketsOf(g, p)) = 1
                   /\ \A n \in BucketsOf(g, p) :
                          g[n].label = LabelOrSentinel(channels[p + 1])
            /\ \A n \in 1..Len(g) :
                   /\ g[n].positions # <<>>
                   /\ \A k \in 1..Len(g[n].positions) :
                          /\ g[n].positions[k] \in 0..(Len(channels) - 1)
                          /\ k > 1 => g[n].positions[k - 1] < g[n].positions[k]
                   /\ g[n].label # "_NO_GROUP_" =>
                          Filter(heap[current_playlist], {g[n].label}, FALSE).channels_exported
                             = Len(g[n].positions)
            /\ BucketSizes(g) = Len(channels)

\* the playlist of ten: the sentinel bucket holds exactly four positions and
\* the export of the group Sports, exclude false, wrote six entries
C25_Witness ==
    /\ sel_pc = "exported"
    /\ Len(get_channels(heap[current_playlist])) = 10
    /\ \E n \in 1..Len(groups) :
           groups[n].label = "_NO_GROUP_" /\ Len(groups[n].positions) = 4
    /\ exported.selected = {"Sports"}
    /\ ~exported.exclude
    /\ exported.channels_exported = 6

\* this step belongs to an export session: its entry, a turn of the
\* selection loop, the export itself or the way out
SessionStep == InSession \/ InSession'

\* C34: no step of an export session, whether the session ends with a file
\* written, with a failed export or cancelled, changes which playlist is
\* current, the entries or attributes of any stored playlist (the source
\* among them), the registry, or the history the manager holds; when the
\* export has run, the source is as the filter read it.
C34_SessionLeavesTheManagerAsItWas ==
    /\ [][SessionStep =>
            /\ current_playlist' = current_playlist
            /\ loaded_playlists' = loaded_playlists
            /\ heap' = heap
            /\ url_history' = url_history]_vars
    /\ [](call.op = "finish" /\ HasFiltered =>
            /\ current_playlist = exported.source_id
            /\ heap[current_playlist] = exported.source)

\* an export that failed after the filter took some channels of the second
\* stored playlist: both playlists are stored as loaded, the second current
C34_Witness ==
    /\ call.op = "finish"
    /\ exported.status = "failed"
    /\ exported.channels_exported > 0
    /\ Len(loaded_playlists) = Len(StoredLoads)
    /\ current_playlist = Len(StoredLoads)
    /\ \A i \in 1..Len(StoredLoads) : heap[i] = StoredLoads[i].pl
    /\ url_history = StoredUrlHistory(Len(StoredLoads))

\* C33: in an export of export_with_group_filter with exclude false, the
\* Filtered Channels figure of the export summary (the bucket sizes of the
\* selected labels added up) is the number of channels put into the filtered
\* playlist, for every playlist and every selection.
C33_SummaryFigureIsTheExportedCount ==
    (call.op = "finish" /\ sel_pc = "exported" /\ ui # "tui" /\ ~exported.exclude) =>
        /\ call.summary # <<>>
        /\ call.summary[1].filtered_channels = exported.channels_exported
        /\ call.summary[1].filtered_channels = Len(get_channels(exported.filtered_pl))
        /\ call.summary[1].selected_groups = Cardinality(exported.selected)
        /\ call.summary[1].total_channels = Len(get_channels(exported.source))

\* two groups were selected in a playlist that also has a channel without a
\* group: the figure is the two buckets together, fewer than the playlist
C33_Witness ==
    /\ call.op = "finish"
    /\ sel_pc = "exported"
    /\ ui = "simple"
    /\ ~exported.exclude
    /\ Cardinality(exported.selected) = 2
    /\ call.summary # <<>>
    /\ call.summary[1].filtered_channels = 2
    /\ call.summary[1].total_channels = 3

----------------------------------------------------------------------------
(* Merging, in a session that starts after some loads                       *)

\* the names a merge is asked to store its result under: none, and the name
\* of the first stored playlist
MergedNameArgs == {NoName, GeneratedName(1, 0)}

InitMerge ==
    /\ \E k \in 0..Len(StoredLoads) : Loaded(k)
    /\ last_rec = <<>>
    /\ history_file = FileOf(url_history)
    /\ multi = NoMulti
    /\ now = 0
    /\ call = NoCall
    /\ nops = 0
    /\ ui \in {"rich", "simple"}
    /\ SelIdle

\* the operations of one second
NextMerge ==
    \/ \E names_arg \in MergeNameLists, merged_name_arg \in MergedNameArgs :
       \E picked \in IF names_arg = <<>> THEN MergeNameLists ELSE {<<>>} :
          merge_playlists(names_arg, merged_name_arg, picked)
    \/ \E choice \in 0..MaxLoaded, remove_choice \in 0..MaxLoaded,
          action \in {"remove", "cancel"} :
          manage_loaded_playlists_rich(choice, action, remove_choice)
    \/ \E typed \in TypedNumbers : manage_loaded_playlists_simple(typed)

SpecMerge == InitMerge /\ [][NextMerge]_vars

----------------------------------------------------------------------------
(* Claims about merging *)

RECURSIVE FoundChannels(_, _, _)
\* the entries of the playlists that names finds in the registry reg, one
\* playlist after the other in the order of names
FoundChannels(names, reg, hp) ==
    IF names = <<>> THEN <<>>
    ELSE (IF DictHas(reg, Head(names)) THEN hp[DictGet(reg, Head(names))].channels
          ELSE <<>>)
         \o FoundChannels(Tail(names), reg, hp)

RECURSIVE FoundLength(_, _, _)
\* the sum of the lengths of the playlists that names finds
FoundLength(names, reg, hp) ==
    IF names = <<>> THEN 0
    ELSE (IF DictHas(reg, Head(names)) THEN Len(hp[DictGet(reg, Head(names))].channels)
          ELSE 0)
         + FoundLength(Tail(names), reg, hp)

\* the registry entries under other names than name, with what they hold
OtherEntries(reg, hp, name) ==
    {<<reg[i].name, reg[i].pl, hp[reg[i].pl]>> : i \in {j \in 1..Len(reg) : reg[j].name # name}}

\* this step is a merge that went through
MergeStep == call'.op = "merge" /\ nops' = nops + 1 /\ call'.merged

\* C17: a merge over a non-empty list of names builds a new playlist whose
\* entries are the entries of every named playlist found in the registry, put
\* one after the other in the order of the names (a name that is not found adds
\* nothing, a name listed twice adds its entries twice); its length is the sum
\* of the lengths of the playlists found; it is stored under merged_name in
\* place of any playlist of that name, and it is the current playlist.
C17_MergeConcatenatesInOrder ==
    [][MergeStep =>
        LET names == call'.names
            merged_name == call'.merged_name
            merged_pl == current_playlist'
        IN  /\ names # <<>>
            /\ merged_pl \notin DOMAIN heap
            /\ merged_pl \in DOMAIN heap'
            /\ heap'[merged_pl].channels = FoundChannels(names, loaded_playlists, heap)
            /\ Len(heap'[merged_pl].channels) = FoundLength(names, loaded_playlists, heap)
            /\ DictHas(loaded_playlists', merged_name)
            /\ DictGet(loaded_playlists', merged_name) = merged_pl
            /\ Cardinality({i \in 1..Len(loaded_playlists') :
                               loaded_playlists'[i].name = merged_name}) = 1
            /\ OtherEntries(loaded_playlists', heap', merged_name)
                  = OtherEntries(loaded_playlists, heap, merged_name)
    ]_vars

\* the playlists of 3 and of 5 entries were merged into one of 8, the entries
\* of the first before those of the second
C17_Witness ==
    /\ call.op = "merge"
    /\ call.merged
    /\ call.names = <<GeneratedName(1, 0), GeneratedName(2, 0)>>
    /\ Len(heap[current_playlist].channels) = 8
    /\ SubSeq(heap[current_playlist].channels, 1, 3) = StoredLoads[1].pl.channels
    /\ SubSeq(heap[current_playlist].channels, 4, 8) = StoredLoads[2].pl.channels

\* C18: merge([], name), with an empty list of source names, yields an empty
\* playlist that is registered under name and is current, whatever the
\* registry held before, also when the registry is empty.
C18_Claimed_MergeOfNoNamesRegistersEmpty ==
    (call.op = "merge" /\ call.names_arg = <<>> /\ call.merged_name # NoName) =>
        /\ DictHas(loaded_playlists, call.merged_name)
        /\ current_playlist = DictGet(loaded_playlists, call.merged_name)
        /\ heap[current_playlist].channels = <<>>

\* C19: a merge over a non-empty list of names none of which is in the
\* registry yields an empty playlist registered under the name, without an
\* error, and leaves every other registry entry as it was.
C19_MergeOfMissingNamesRegistersEmpty ==
    [][(/\ call'.op = "merge"
        /\ nops' = nops + 1
        /\ call'.names_arg # <<>>
        /\ \A k \in 1..Len(call'.names_arg) :
              ~DictHas(loaded_playlists, call'.names_arg[k]))
       =>
        LET merged_name == call'.merged_name
        IN  /\ call'.merged
            /\ DictHas(loaded_playlists', merged_name)
            /\ current_playlist' = DictGet(loaded_playlists', merged_name)
            /\ heap'[current_playlist'].channels = <<>>
            /\ OtherEntries(loaded_playlists', heap', merged_name)
                  = OtherEntries(loaded_playlists, heap, merged_name)
    ]_vars

\* a merge of names that are not registered went through while the registry
\* held other playlists
C19_Witness ==
    /\ call.op = "merge"
    /\ call.merged
    /\ call.names_arg # <<>>
    /\ \A k \in 1..Len(call.names_arg) : call.names_arg[k] = <<"given", 2>>
    /\ heap[current_playlist].channels = <<>>
    /\ Len(loaded_playlists) > 1

----------------------------------------------------------------------------
(* Switching the current playlist *)

\* the number a typed line stands for once the blanks around it are dropped;
\* 0 for a line that is no number
TypedRef(typed) ==
    CASE typed = <<"1">> -> 1
      [] typed = <<" ", "2", " ">> -> 2
      [] typed = <<"3">> -> 3
      [] OTHER -> 0

\* the registry, its playlists and the history are as they were
NothingElseChanged ==
    /\ loaded_playlists' = loaded_playlists
    /\ url_history' = url_history
    /\ history_file' = history_file
    /\ \A i \in 1..Len(loaded_playlists) :
           heap'[loaded_playlists[i].pl] = heap[loaded_playlists[i].pl]

\* C22: a switch to a reference that is not in the registry (0, a number
\* greater than the number of loaded playlists, a line that is no number)
\* changes nothing: the current playlist, the registry and the history are as
\* before; a switch to an existing reference makes exactly that registry
\* playlist current and changes nothing else.
C22_SwitchToMissingChangesNothing ==
    [][/\ (call'.op = "switch" /\ nops' = nops + 1) =>
            LET ref == TypedRef(call'.typed)
            IN  /\ NothingElseChanged
                /\ IF ref \in 1..Len(loaded_playlists)
                   THEN current_playlist' = loaded_playlists[ref].pl
                   ELSE current_playlist' = current_playlist /\ heap' = heap
       /\ (call'.op = "manage" /\ nops' = nops + 1 /\ call'.action # "remove") =>
            LET ref == call'.choice
            IN  /\ NothingElseChanged
                /\ IF ref \in 1..Len(loaded_playlists)
                   THEN current_playlist' = loaded_playlists[ref].pl
                   ELSE current_playlist' = current_playlist /\ heap' = heap
    ]_vars

\* with two playlists loaded and the first one current, "3" was typed and
\* the first one is still current
C22_Witness ==
    /\ call.op = "switch"
    /\ call.typed = <<"3">>
    /\ Len(loaded_playlists) = 2
    /\ call.was_current = loaded_playlists[1].pl
    /\ current_playlist = loaded_playlists[1].pl

----------------------------------------------------------------------------
(* Playlists changed after a merge or an export took them as sources: the   *)
(* operations of M3UPlaylist applied to one object                          *)

\* pl.remove_channel(0)
remove_channel(pl) == [pl EXCEPT !.channels = IF @ = <<>> THEN @ ELSE Tail(@)]

\* what is done to the object
Changed(pl, kind) ==
    IF kind = "append_channel" THEN append_channel(pl, Channel("z1", "News"))
    ELSE IF kind = "remove_channel" THEN remove_channel(pl)
    ELSE add_attributes(pl, {<<"x-tvg-url", "other">>, <<"catchup", "7">>})

ChangeKinds == {"append_channel", "remove_channel", "add_attributes"}

\* one playlist object is changed in place, wherever it is referenced from
ChangeObject(target, kind) ==
    /\ ~InSession
    /\ nops < MaxOps
    /\ nops' = nops + 1
    /\ target \in Objects
    /\ heap' = [i \in DOMAIN heap |-> IF i = target THEN Changed(heap[i], kind) ELSE heap[i]]
    /\ exported' = IF HasFiltered /\ exported.filtered_id = target
                   THEN [exported EXCEPT !.filtered_pl = Changed(@, kind)]
                   ELSE exported
    /\ call' = [op |-> "change", target |-> target, kind |-> kind, after |-> call]
    /\ UNCHANGED <<loaded_playlists, current_playlist, groups, now, multi, histVars, selVars>>

\* the lines of these sessions
TypedFew == {<<"1">>, <<"d", "o", "n", "e">>}
TypedFewCommands == {<<"1">>, <<"e">>}

InitOwn ==
    /\ Loaded(Len(StoredLoads))
    /\ last_rec = <<>>
    /\ history_file = FileOf(url_history)
    /\ multi = NoMulti
    /\ now = 0
    /\ call = NoCall
    /\ nops = 0
    /\ ui \in {"rich", "simple", "tui"}
    /\ SelIdle

NextOwn ==
    \/ ExportBegin /\ UNCHANGED <<histVars, regVars, now, multi, nops>>
    \/ \E typed \in TypedFew :
          EnhancedStep(typed) /\ UNCHANGED <<histVars, regVars, expVars, now, multi, nops>>
    \/ \E typed \in TypedFew :
          SimpleStep(typed) /\ UNCHANGED <<histVars, regVars, expVars, now, multi, nops>>
    \/ \E typed \in TypedFewCommands :
          TuiCommand(typed) /\ UNCHANGED <<histVars, regVars, expVars, now, multi, nops>>
    \/ \E exclude \in BOOLEAN :
          ExportFinish("m3u", exclude, TRUE) /\ UNCHANGED <<histVars, regVars, now, multi, nops>>
    \/ \E exclude \in BOOLEAN :
          PerformExport("m3u", exclude, TRUE) /\ UNCHANGED <<histVars, regVars, now, multi, nops>>
    \/ ~InSession /\ \E names_arg \in MergeNameLists :
          names_arg # <<>> /\ merge_playlists(names_arg, NoName, <<>>)
    \/ \E target \in 1..(MaxLoaded + MaxOps), kind \in ChangeKinds :
          ChangeObject(target, kind)

SpecOwn == InitOwn /\ [][NextOwn]_vars

\* this step changes one playlist object
ChangeStep == call'.op = "change" /\ nops' = nops + 1

\* C20: a playlist produced by the filter or by a merge is independent of its
\* sources: adding or removing entries or changing playlist-level attributes
\* of a source afterwards changes neither the entries nor the attributes of
\* the result, and changing the result changes no source.
C20_ResultIndependentOfSources ==
    [][ChangeStep =>
        /\ (call.op = "merge" /\ call.merged) =>
              /\ call'.target \in call.sources =>
                    heap'[current_playlist] = heap[current_playlist]
              /\ call'.target = current_playlist =>
                    \A source \in call.sources \cap DOMAIN heap :
                        heap'[source] = heap[source]
        /\ HasFiltered =>
              /\ call'.target = exported.source_id =>
                    exported'.filtered_pl = exported.filtered_pl
              /\ (call'.target = exported.filtered_id
                     /\ exported.source_id \in DOMAIN heap) =>
                    heap'[exported.source_id] = heap[exported.source_id]
    ]_vars

\* a playlist was changed right after a merge took it as a source, and it is
\* also the source of the export before
C20_Witness ==
    /\ call.op = "change"
    /\ call.after.op = "merge"
    /\ call.after.merged
    /\ call.target \in call.after.sources
    /\ HasFiltered
    /\ call.target = exported.source_id
    /\ heap[call.target] # exported.source

----------------------------------------------------------------------------
(* The history file: sessions in which the write of _save_url_history can   *)
(* fail                                                                     *)

\* the lengths of the stored history these sessions start from
FileLengths == {0, HistCap}

\* the locations recorded and loaded: the oldest stored one and a new one
FileUrls == {Url(1, 1), Url(HistCap + 1, 1)}

\* how the fetches of these sessions end
FileFetches == {fetched \in FetchOutcomes : fetched.kind \in {"ok", "URLException"}}

InitFile ==
    /\ \E n \in FileLengths :
          /\ url_history = StoredHistory(n)
          /\ last_rec = [u \in HistUrls |-> IF u.host <= n THEN u.host ELSE 0]
          /\ history_file = FileOf(StoredHistory(n))
    /\ multi = NoMulti
    /\ now = 0
    /\ call = NoCall
    /\ nops = 0
    /\ ui = "simple"
    /\ SelIdle
    /\ RegEmpty

NextFile ==
    \/ ~InSession /\ \E url \in FileUrls, success \in BOOLEAN, outcome \in WriteOutcomes :
          RecordSave(url, success, IF success THEN 1 ELSE 0, outcome)
    \/ ~InSession /\ \E url \in FileUrls, fetched \in FileFetches, outcome \in WriteOutcomes :
          LoadSave(url, NoName, fetched, outcome)
    \/ ~InSession /\ \E k \in 1..Len(loaded_playlists) :
          merge_playlists(<<loaded_playlists[k].name>>, NoName, <<>>)
    \/ ExportBegin /\ UNCHANGED <<histVars, regVars, now, multi, nops>>
    \/ \E typed \in TypedFew :
          SimpleStep(typed) /\ UNCHANGED <<histVars, regVars, expVars, now, multi, nops>>
    \/ \E exclude \in BOOLEAN :
          ExportFinish("m3u", exclude, TRUE) /\ UNCHANGED <<histVars, regVars, now, multi, nops>>

SpecFile == InitFile /\ [][NextFile]_vars

\* this step is a record call, on its own or within a load
RecordStep ==
    /\ nops' = nops + 1
    /\ \/ call'.op = "record"
       \/ call'.op = "load" /\ call'.propagated = "none"

\* the outcome the call records for its location
RecordedSuccess == IF call'.op = "record" THEN call'.success ELSE call'.result
RecordedCount ==
    IF call'.op = "record" THEN call'.channel_count
    ELSE IF call'.result THEN Len(heap'[current_playlist'].channels) ELSE 0

\* C26: when the write of the history file fails during a record call, no
\* error leaves the call and the history in memory holds the new entry, with
\* the earlier entry of the location removed and the cap of 50 applied, exactly
\* as when the write succeeds; record, load, merge and export go on working
\* on the state in memory afterwards.
C26_FailedWriteLeavesMemoryAsIfWritten ==
    [][/\ RecordStep =>
            LET url == call'.url
                rest == Others(url_history, url)
            IN  /\ url_history' # <<>>
                /\ url_history'[1].url = url
                /\ url_history'[1].success = RecordedSuccess
                /\ url_history'[1].channel_count = RecordedCount
                /\ Len(url_history') = Min(Len(rest) + 1, HistCap)
                /\ SubSeq(url_history', 2, Len(url_history'))
                      = SubSeq(rest, 1, Len(url_history') - 1)
                /\ call'.outcome = "written" =>
                      history_file' = HistoryFile("array", url_history')
       /\ (history_file.kind = "partial" /\ nops' = nops + 1 /\ call'.op = "merge") =>
             /\ call'.merged
             /\ heap'[current_playlist'].channels =
                   heap[DictGet(loaded_playlists, call'.names[1])].channels
       /\ (history_file.kind = "partial" /\ sel_pc = "done" /\ sel_pc' = "exported") =>
             exported'.channels_exported =
                Len(Included(heap[current_playlist], Selection, exported'.exclude))
    ]_vars

\* after a write that failed part-way, a record call on the full history has
\* put a new location first and dropped the oldest entry, its own write
\* failing too
C26_Witness ==
    /\ call.op = "record"
    /\ nops = 2
    /\ call.outcome # "written"
    /\ call.pos_before = 0
    /\ call.len_before = HistCap
    /\ Len(url_history) = HistCap
    /\ url_history[1].url = call.url
    /\ history_file.kind = "partial"

\* C27 as claimed: the history file is written after every record call and
\* atomically: at every moment, also when a write fails or stops part-way,
\* the file holds the complete previous history or the complete new one (at
\* most 50 entries), never an empty or partial array.
C27_Claimed_FileAlwaysComplete ==
    /\ history_file.kind # "partial"
    /\ Len(history_file.entries) <= HistCap
    /\ \A i, j \in 1..Len(history_file.entries) :
           i # j => history_file.entries[i].url # history_file.entries[j].url

\* when the write goes through, the file holds the history in memory
C27_WrittenFileHoldsTheHistory ==
    [][(RecordStep /\ call'.outcome = "written") =>
          history_file' = HistoryFile("array", url_history')]_vars

----------------------------------------------------------------------------
(* load_multiple_urls: one turn of its for loop per step                    *)

\* locations in one list at most
MaxUrls == 3

\* the locations of the lists: two of one host and one urlparse cannot split
MultiUrls == {Url(1, 1), Url(1, 2), UnsplitUrl}

UrlLists == UNION {[1..n -> MultiUrls] : n \in 0..MaxUrls}

\* load_multiple_urls(urls, sanitize) up to its loop: success_count = 0; with
\* no urls the loop is passed over and 0/0 is reported
load_multiple_urls_begin(urls) ==
    /\ ui # "tui"
    /\ multi.pc = "idle"
    /\ multi' = [pc |-> IF urls = <<>> THEN "done" ELSE "loop", urls |-> urls,
                 i |-> 1, success_count |-> 0, results |-> <<>>]
    /\ call' = [op |-> "load_multiple", urls |-> urls]
    /\ UNCHANGED <<now, nops, ui, histVars, selVars, regVars, expVars>>

\* one turn of the loop: if self.load_playlist_from_url(url, sanitize):
\* success_count += 1.  An error that leaves load_playlist_from_url leaves
\* load_multiple_urls too; after the last url the count is reported.
load_multiple_urls_step(fetched) ==
    /\ multi.pc = "loop"
    /\ LET url == multi.urls[multi.i]
           raises == fetched.kind # "ok" /\ urlparse_raises(url)
           result == fetched.kind = "ok"
       IN  /\ load_playlist_from_url(url, NoName, fetched, "written")
           /\ multi' = IF raises
                       THEN [multi EXCEPT !.pc = "aborted"]
                       ELSE [multi EXCEPT
                                !.i = @ + 1,
                                !.success_count = IF result THEN @ + 1 ELSE @,
                                !.results = Append(@, result),
                                !.pc = IF multi.i = Len(multi.urls) THEN "done"
                                       ELSE "loop"]
    /\ UNCHANGED nops

InitMulti ==
    /\ url_history = <<>>
    /\ last_rec = <<>>
    /\ history_file = FileOf(url_history)
    /\ multi = NoMulti
    /\ now = 0
    /\ call = NoCall
    /\ nops = 0
    /\ ui \in {"rich", "simple"}
    /\ SelIdle
    /\ RegEmpty

NextMulti ==
    \/ Tick
    \/ \E urls \in UrlLists : load_multiple_urls_begin(urls)
    \/ \E fetched \in FileFetches : load_multiple_urls_step(fetched)

SpecMulti == InitMulti /\ [][NextMulti]_vars

\* this step is a turn of the loop
MultiStep == multi.pc = "loop" /\ multi' # multi

\* what a turn of the loop has to leave behind: the location in turn was
\* attempted, and its entry, with its own outcome, stands first in the history
TurnRecorded ==
    /\ call'.url = multi.urls[multi.i]
    /\ RecordedFirst(call'.url, call'.result,
                     IF call'.result THEN Len(heap'[current_playlist'].channels) ELSE 0)
    /\ multi'.pc \in {"loop", "done"}
    /\ multi'.i = multi.i + 1

\* the run is over: every location had its turn and the count is right
RunComplete ==
    /\ Len(multi.results) = Len(multi.urls)
    /\ multi.success_count = Cardinality({k \in 1..Len(multi.results) : multi.results[k]})

\* C29 as claimed: a list of locations is loaded one after the other in the
\* given order; each location gets exactly one history record with its own
\* outcome before the next one is attempted; a location that fails does not
\* keep the remaining ones from being attempted; the reported success count
\* is the number of locations whose load succeeded.
C29_Claimed_EveryLocationAttemptedInOrder ==
    /\ [][MultiStep => TurnRecorded]_vars
    /\ [](multi.pc \in {"idle", "loop", "done"})
    /\ [](multi.pc = "done" => RunComplete)

\* the same for lists of locations urlparse can split: there the claim holds
C29_SplitLocationsAttemptedInOrder ==
    /\ [][(MultiStep /\ UnsplitUrl \notin Range(multi.urls)) => TurnRecorded]_vars
    /\ [](UnsplitUrl \notin Range(multi.urls) =>
            /\ multi.pc \in {"idle", "loop", "done"}
            /\ multi.pc = "done" => RunComplete)

====
